---- MODULE Spec2Model ----
(***************************************************************************)
(* Model of epregressions/runtests.py (class SuiteRunner): the end-status  *)
(* classifier process_end_file, the outcome decision and diff dispatch of  *)
(* process_diffs_for_one_case, the per-entry loop of diff_logs_for_build,  *)
(* and run_test_suite with run_build on its serial and parallel paths, the *)
(* worker processes and the caller's cancel request.                       *)
(*                                                                         *)
(* Text is a sequence of one-character strings.  Times are integers in     *)
(* hundredths of a second (the end file prints two decimals).              *)
(***************************************************************************)
EXTENDS Integers, Sequences, FiniteSets, TLC

VARIABLES
    end_case,          \* SpecEnd: how the end file under test was composed
    end_contents,      \* SpecEnd: raw text of the eplusout.end file under test
    end_result,        \* SpecEnd: what process_end_file returned or raised
    entries,           \* self.entries: sequence of TestEntry records
    result_dirs,       \* per entry, its two result directories (a: build A, b: build B)
    case_ends,         \* locals status_case1, runtime_case1, status_case2, runtime_case2
                       \* of the last call of process_diffs_for_one_case
    parser_calls,      \* builds whose end file the last call handed to process_end_file
    diff_calls,        \* file names whose diff call the last call invoked, in order
    case_raised,       \* exception that left the last call ("none" if it returned)
    printed,           \* messages handed to my_print, in order
    all_files,         \* completed_structure.all_files: entries added so far
    diff_completed,    \* basenames handed to my_diffcompleted, in order
    diff_pos,          \* diff_logs_for_build: index of the entry diffed last
    pc,                \* position of the caller
    number_of_threads, \* self.number_of_threads
    run_case,          \* self.run_case_a, self.run_case_b
    id_like_to_stop_now, \* self.id_like_to_stop_now of the orchestrator
    build,             \* build tree of the last call of run_build ("none" before the first)
    stage_pos,         \* run_build: index of the entry staged last
    energy_plus_runs,  \* run_build: the job list, positions in entries
    run_pos,           \* run_build: jobs executed (serial) or results collected (parallel)
    task_queue,        \* run_build: task_queue
    done_queue,        \* run_build: done_queue
    workers,           \* the worker processes of this run_build call
    stage_log,         \* what staging found, per build and entry, in order
    exec_log,          \* executions begun: build, entry, worker, flag at that time, outcome
    case_completed,    \* records handed to my_casecompleted, in order
    events,            \* my_starting, my_simulationscomplete, my_alldone, my_cancelled, in order
    response,          \* what run_test_suite returned
    summary_files,     \* summary files written by run_test_suite
    phase_flag,        \* per build, the flag as the execution of its tasks began
    disk,              \* directories made under the build directories, with who made them
    now,               \* SpecRoots: the local clock, in ticks
    runners,           \* SpecRoots: the runners constructed so far, in order
    text_case,         \* SpecText: the two text files handed to diff_text_files
    text_result,       \* SpecText: what diff_text_files returned and wrote
    weather,           \* SpecWeather: the entry's override, the files there, the result
    gui                \* SpecGui: the main window, its runners, threads and idle queue

runner_vars == <<number_of_threads, run_case, id_like_to_stop_now, build, stage_pos,
                 energy_plus_runs, run_pos, task_queue, done_queue, workers, stage_log,
                 exec_log, case_completed, events, response, summary_files, phase_flag,
                 disk, now, runners>>

run_vars == <<runner_vars, text_case, text_result, weather, gui>>

vars == <<end_case, end_contents, end_result, entries, result_dirs, case_ends, parser_calls,
          diff_calls, case_raised, printed, all_files, diff_completed, diff_pos, pc, run_vars>>

\* no text files compared, no weather file resolved, no main window
NoText == text_case = <<>> /\ text_result = <<>>
NoWeather == weather = <<>>
NoGui == gui = <<>>

\* no suite run: the values the constructor leaves (line 68) and nothing done
NoRunner ==
    /\ number_of_threads = 1
    /\ run_case = [a |-> TRUE, b |-> TRUE]
    /\ id_like_to_stop_now = FALSE
    /\ build = "none"
    /\ stage_pos = 0
    /\ energy_plus_runs = <<>>
    /\ run_pos = 0
    /\ task_queue = <<>>
    /\ done_queue = <<>>
    /\ workers = <<>>
    /\ stage_log = <<>>
    /\ exec_log = {}
    /\ case_completed = <<>>
    /\ events = <<>>
    /\ response = "None"
    /\ summary_files = {}
    /\ phase_flag = [b \in {"a", "b"} |-> "none"]
    /\ disk = {}
    /\ now = 0
    /\ runners = <<>>

NoRun == NoRunner /\ NoText /\ NoWeather /\ NoGui

----------------------------------------------------------------------------
(* Text helpers *)

Min(a, b) == IF a < b THEN a ELSE b

NL == "\n"

\* str.replace("\n", "")
RemoveNewlines(s) == SelectSeq(s, LAMBDA c : c # NL)

\* needle in haystack
Contains(haystack, needle) ==
    \E i \in 1..(Len(haystack) - Len(needle) + 1) :
        SubSeq(haystack, i, i + Len(needle) - 1) = needle

\* str.index(c) + 1, or 0 when c does not occur (str.index raises ValueError)
IndexOf(s, c) ==
    IF \E i \in 1..Len(s) : s[i] = c
    THEN CHOOSE i \in 1..Len(s) : s[i] = c /\ \A j \in 1..(i - 1) : s[j] # c
    ELSE 0

\* s[0:stop] of Python, stop >= -1
PySlice0(s, stop) ==
    IF stop >= 0 THEN SubSeq(s, 1, Min(stop, Len(s)))
    ELSE SubSeq(s, 1, Len(s) - 1)

\* str.split(sep) for a one-character separator
RECURSIVE Split(_, _)
Split(s, sep) ==
    LET i == IndexOf(s, sep)
    IN  IF i = 0 THEN <<s>>
        ELSE <<SubSeq(s, 1, i - 1)>> \o Split(SubSeq(s, i + 1, Len(s)), sep)

Digits == {"0", "1", "2", "3", "4", "5", "6", "7", "8", "9"}

DigitVal(c) ==
    CASE c = "0" -> 0 [] c = "1" -> 1 [] c = "2" -> 2 [] c = "3" -> 3 [] c = "4" -> 4
      [] c = "5" -> 5 [] c = "6" -> 6 [] c = "7" -> 7 [] c = "8" -> 8 [] c = "9" -> 9

RECURSIVE DigitsVal(_)
DigitsVal(s) ==
    IF s = <<>> THEN 0
    ELSE DigitsVal(SubSeq(s, 1, Len(s) - 1)) * 10 + DigitVal(s[Len(s)])

\* float(s) over signs, digits and the decimal point: whether it parses, and
\* its value in hundredths.  (Exponents, "inf", "nan" and underscores do not
\* occur in the texts used here.)
FloatBody(s) == IF s # <<>> /\ s[1] \in {"+", "-"} THEN SubSeq(s, 2, Len(s)) ELSE s

FloatOk(s) ==
    LET b == FloatBody(s)
    IN  /\ \A i \in 1..Len(b) : b[i] \in Digits \cup {"."}
        /\ Cardinality({i \in 1..Len(b) : b[i] = "."}) <= 1
        /\ \E i \in 1..Len(b) : b[i] \in Digits

FloatVal(s) ==
    LET b    == FloatBody(s)
        dot  == IndexOf(b, ".")
        ip   == IF dot = 0 THEN b ELSE SubSeq(b, 1, dot - 1)
        fp   == IF dot = 0 THEN <<>> ELSE SubSeq(b, dot + 1, Len(b))
        f2   == SubSeq(fp \o <<"0", "0">>, 1, 2)
        mag  == DigitsVal(ip) * 100 + DigitsVal(f2)
    IN  IF s # <<>> /\ s[1] = "-" THEN 0 - mag ELSE mag

----------------------------------------------------------------------------
(* EndErrSummary status values *)

STATUS_MISSING == "MISSING"
STATUS_UNKNOWN == "UNKNOWN"
STATUS_SUCCESS == "SUCCESS"
STATUS_FATAL == "FATAL"

Statuses == {STATUS_MISSING, STATUS_UNKNOWN, STATUS_SUCCESS, STATUS_FATAL}

----------------------------------------------------------------------------
(* process_end_file *)

Successfully == <<"S", "u", "c", "c", "e", "s", "s", "f", "u", "l", "l", "y">>
Fatal == <<"F", "a", "t", "a", "l">>

\* the status branch: "Successfully" first, then "Fatal", else no status
ClassifyFatalFirst(contents) ==
    IF Contains(contents, Fatal) THEN STATUS_FATAL
    ELSE IF Contains(contents, Successfully) THEN STATUS_SUCCESS
    ELSE STATUS_UNKNOWN

ClassifyStatus(contents) ==
    IF Contains(contents, Successfully) THEN STATUS_SUCCESS
    ELSE IF Contains(contents, Fatal) THEN STATUS_FATAL
    ELSE STATUS_UNKNOWN

\* the non-blank tokens of the text after the first '='
TimeStringTokens(contents) ==
    SelectSeq(Split(Split(contents, "=")[2], " "), LAMBDA x : x # <<>>)

\* the text handed to float() for the seconds: seconds_term[0:(seconds_index - 1)]
SecondsText(seconds_term) == PySlice0(seconds_term, (IndexOf(seconds_term, "s") - 1) - 1)

\* the duration parse; raised is the exception that ends it, "none" if it returns
ParseRuntime(contents) ==
    IF Len(Split(contents, "=")) < 2 THEN [raised |-> "IndexError", runtime |-> 0]
    ELSE LET tokens == TimeStringTokens(contents)
         IN  IF Len(tokens) < 1 THEN [raised |-> "IndexError", runtime |-> 0]
             ELSE IF ~FloatOk(PySlice0(tokens[1], 2))
                  THEN [raised |-> "ValueError", runtime |-> 0]
             ELSE IF Len(tokens) < 2 THEN [raised |-> "IndexError", runtime |-> 0]
             ELSE IF ~FloatOk(PySlice0(tokens[2], 2))
                  THEN [raised |-> "ValueError", runtime |-> 0]
             ELSE IF Len(tokens) < 3 THEN [raised |-> "IndexError", runtime |-> 0]
             ELSE IF IndexOf(tokens[3], "s") = 0
                  THEN [raised |-> "ValueError", runtime |-> 0]
             ELSE IF ~FloatOk(SecondsText(tokens[3]))
                  THEN [raised |-> "ValueError", runtime |-> 0]
             ELSE [raised |-> "none",
                   runtime |-> FloatVal(PySlice0(tokens[1], 2)) * 3600
                               + FloatVal(PySlice0(tokens[2], 2)) * 60
                               + FloatVal(SecondsText(tokens[3]))]

process_end_file_ParseFirst(raw) ==
    LET contents == RemoveNewlines(raw)
        status   == ClassifyStatus(contents)
        parsed   == ParseRuntime(contents)
    IN  IF parsed.raised # "none"
        THEN [raised |-> parsed.raised, status |-> STATUS_UNKNOWN, runtime |-> 0]
        ELSE IF status = STATUS_UNKNOWN
        THEN [raised |-> "none", status |-> STATUS_UNKNOWN, runtime |-> 0]
        ELSE [raised |-> "none", status |-> status, runtime |-> parsed.runtime]

\* raised # "none": the call raised and returned nothing (status and runtime
\* are then placeholders)
process_end_file(raw) ==
    LET contents == RemoveNewlines(raw)
        status   == ClassifyStatus(contents)
        parsed   == ParseRuntime(contents)
    IN  IF status = STATUS_UNKNOWN
        THEN [raised |-> "none", status |-> STATUS_UNKNOWN, runtime |-> 0]
        ELSE IF parsed.raised # "none"
        THEN [raised |-> parsed.raised, status |-> STATUS_UNKNOWN, runtime |-> 0]
        ELSE [raised |-> "none", status |-> status, runtime |-> parsed.runtime]

----------------------------------------------------------------------------
(* End files under test.  An end file is composed of a head (the text that  *)
(* carries the status words), the label " Elapsed Time", an equals part and *)
(* a duration, with at most one line break put in after nl characters.      *)
(* success/fatal say which status words the head carries; wf says that the  *)
(* duration follows "HHhr MMmin SS.sssec", and hh, mm, cs (hundredths of a  *)
(* second) are then the numbers it prints.                                  *)
HeadSuccess ==
    [text |-> <<"C", "o", "m", "p", "l", "e", "t", "e", "d", " ", "S", "u", "c", "c", "e", "s", "s", "f", "u", "l", "l", "y", "-", "-">>,
     success |-> TRUE, fatal |-> FALSE]
HeadFatal ==
    [text |-> <<"T", "e", "r", "m", "i", "n", "a", "t", "e", "d", "-", "-", "F", "a", "t", "a", "l", " ", "E", "r", "r", "o", "r", " ", "D", "e", "t", "e", "c", "t", "e", "d", ".">>,
     success |-> FALSE, fatal |-> TRUE]
HeadSuccessFatal ==
    [text |-> <<"S", "u", "c", "c", "e", "s", "s", "f", "u", "l", "l", "y", " ", "F", "a", "t", "a", "l">>,
     success |-> TRUE, fatal |-> TRUE]
HeadFatalSuccess ==
    [text |-> <<"F", "a", "t", "a", "l", " ", "S", "u", "c", "c", "e", "s", "s", "f", "u", "l", "l", "y">>,
     success |-> TRUE, fatal |-> TRUE]
HeadNeither ==
    [text |-> <<"C", "o", "m", "p", "l", "e", "t", "e", "d", "-", "-">>,
     success |-> FALSE, fatal |-> FALSE]
Heads == {HeadSuccess, HeadFatal, HeadSuccessFatal, HeadFatalSuccess, HeadNeither}

Dur_2min_3_45 ==
    [text |-> <<"0", "0", "h", "r", " ", "0", "2", "m", "i", "n", " ", " ", "3", ".", "4", "5", "s", "e", "c">>,
     wf |-> TRUE, hh |-> 0, mm |-> 2, cs |-> 345]
Dur_1_42 ==
    [text |-> <<"0", "0", "h", "r", " ", "0", "0", "m", "i", "n", " ", " ", "1", ".", "4", "2", "s", "e", "c">>,
     wf |-> TRUE, hh |-> 0, mm |-> 0, cs |-> 142]
Dur_1hr_10min_12_05 ==
    [text |-> <<"0", "1", "h", "r", " ", "1", "0", "m", "i", "n", " ", "1", "2", ".", "0", "5", "s", "e", "c">>,
     wf |-> TRUE, hh |-> 1, mm |-> 10, cs |-> 1205]
Dur_10_00 ==
    [text |-> <<"0", "0", "h", "r", " ", "0", "0", "m", "i", "n", " ", "1", "0", ".", "0", "0", "s", "e", "c">>,
     wf |-> TRUE, hh |-> 0, mm |-> 0, cs |-> 1000]
Dur_0_59 ==
    [text |-> <<"0", "0", "h", "r", " ", " ", "0", "0", "m", "i", "n", " ", " ", "0", ".", "5", "9", "s", "e", "c">>,
     wf |-> TRUE, hh |-> 0, mm |-> 0, cs |-> 59]
DurEmpty ==
    [text |-> <<>>,
     wf |-> FALSE, hh |-> 0, mm |-> 0, cs |-> 0]
DurNoSeconds ==
    [text |-> <<"0", "0", "h", "r", " ", "0", "2", "m", "i", "n">>,
     wf |-> FALSE, hh |-> 0, mm |-> 0, cs |-> 0]
DurBadHours ==
    [text |-> <<"x", "x", "h", "r", " ", "0", "2", "m", "i", "n", " ", " ", "3", ".", "4", "5", "s", "e", "c">>,
     wf |-> FALSE, hh |-> 0, mm |-> 0, cs |-> 0]
DurBadMinutes ==
    [text |-> <<"0", "0", "h", "r", " ", "m", "m", "m", "i", "n", " ", " ", "3", ".", "4", "5", "s", "e", "c">>,
     wf |-> FALSE, hh |-> 0, mm |-> 0, cs |-> 0]
DurNoUnit ==
    [text |-> <<"0", "0", "h", "r", " ", "0", "2", "m", "i", "n", " ", " ", "3", ".", "4", "5">>,
     wf |-> FALSE, hh |-> 0, mm |-> 0, cs |-> 0]
DurBadSeconds ==
    [text |-> <<"0", "0", "h", "r", " ", "0", "2", "m", "i", "n", " ", " ", "x", ".", "4", "5", "s", "e", "c">>,
     wf |-> FALSE, hh |-> 0, mm |-> 0, cs |-> 0]
DurUnitOnly ==
    [text |-> <<"0", "0", "h", "r", " ", "0", "2", "m", "i", "n", " ", "s", "e", "c">>,
     wf |-> FALSE, hh |-> 0, mm |-> 0, cs |-> 0]
Durations ==
    {Dur_2min_3_45, Dur_1_42, Dur_1hr_10min_12_05, Dur_10_00, Dur_0_59, DurEmpty,
     DurNoSeconds, DurBadHours, DurBadMinutes, DurNoUnit, DurBadSeconds, DurUnitOnly}

TxtElapsedTime == <<" ", "E", "l", "a", "p", "s", "e", "d", " ", "T", "i", "m", "e">>
TxtOtherEquals == <<" ", "(", "i", "d", "f", ")", "=", "i", "n", ".", "i", "d", "f">>

\* "single": one '=' before the duration; "none": a blank in its place;
\* "double": an earlier '=' in the label as well
EqualsParts == {"single", "none", "double"}

Compose(head, eq, dur) ==
    CASE eq = "single" -> head.text \o TxtElapsedTime \o <<"=">> \o dur.text
      [] eq = "none"   -> head.text \o TxtElapsedTime \o <<" ">> \o dur.text
      [] eq = "double" -> head.text \o TxtOtherEquals \o TxtElapsedTime \o <<"=">> \o dur.text

BreakLine(s, nl) ==
    IF nl = 0 THEN s ELSE SubSeq(s, 1, nl) \o <<NL>> \o SubSeq(s, nl + 1, Len(s))

Render(c) == BreakLine(Compose(c.head, c.eq, c.dur), c.nl)

EndCases ==
    UNION {{[head |-> h, eq |-> e, dur |-> d, nl |-> n] : n \in 0..Len(Compose(h, e, d))} :
              h \in Heads, e \in EqualsParts, d \in Durations}

NoEnds == [status_case1 |-> "", runtime_case1 |-> 0, status_case2 |-> "", runtime_case2 |-> 0]
NoResult == [raised |-> "none", status |-> "", runtime |-> 0]
NoCase == [head |-> [text |-> <<>>, success |-> FALSE, fatal |-> FALSE], eq |-> "none",
           dur |-> [text |-> <<>>, wf |-> FALSE, hh |-> 0, mm |-> 0, cs |-> 0], nl |-> 0]

----------------------------------------------------------------------------
(* SpecEnd: process_end_file applied to one end file *)

InitEnd ==
    /\ NoRun
    /\ end_case \in EndCases
    /\ end_contents = Render(end_case)
    /\ end_result = NoResult
    /\ entries = <<>>
    /\ result_dirs = <<>>
    /\ case_ends = NoEnds
    /\ parser_calls = {}
    /\ diff_calls = <<>>
    /\ case_raised = "none"
    /\ printed = <<>>
    /\ all_files = <<>>
    /\ diff_completed = <<>>
    /\ diff_pos = 0
    /\ pc = "end_ready"

ReadEndFile ==
    /\ pc = "end_ready"
    /\ end_result' = process_end_file(end_contents)
    /\ pc' = "end_done"
    /\ UNCHANGED <<end_case, end_contents, entries, result_dirs, case_ends, parser_calls,
                   diff_calls, case_raised, printed, all_files, diff_completed, diff_pos, run_vars>>

NextEnd == ReadEndFile

SpecEnd == InitEnd /\ [][NextEnd]_vars

HasMarker(c) == c.head.success \/ c.head.fatal

\* C5: process_end_file classifies by marker precedence: an end file that
\* carries the success word is SUCCESS even if it also carries the fatal
\* word, one that carries only the fatal word is FATAL, and a line break
\* anywhere in the file (inside a status word or inside the duration) does
\* not keep the file from being classified.
C5_MarkerPrecedence ==
    pc = "end_done" =>
        /\ (end_result.raised = "none" /\ end_case.head.success)
               => end_result.status = STATUS_SUCCESS
        /\ (end_result.raised = "none" /\ ~end_case.head.success /\ end_case.head.fatal)
               => end_result.status = STATUS_FATAL
        /\ (HasMarker(end_case) /\ end_case.eq = "single" /\ end_case.dur.wf)
               => end_result.raised = "none"

\* a file with both words whose success word is broken by the line break,
\* classified SUCCESS
C5_Witness ==
    /\ pc = "end_done"
    /\ end_case.head.success /\ end_case.head.fatal
    /\ ~Contains(end_contents, Successfully)
    /\ Contains(end_contents, Fatal)
    /\ end_result.raised = "none"
    /\ end_result.status = STATUS_SUCCESS

\* C6: for an end file with a status word and a well-formed duration after
\* its single '=', the returned runtime is HH*3600 + MM*60 + SS.ss.
C6_RuntimeFormula ==
    (pc = "end_done" /\ HasMarker(end_case) /\ end_case.eq = "single" /\ end_case.dur.wf) =>
        /\ end_result.raised = "none"
        /\ end_result.runtime
               = end_case.dur.hh * 360000 + end_case.dur.mm * 6000 + end_case.dur.cs

\* C7: an end file that carries neither status word gives (UNKNOWN, 0) and
\* never raises, whatever follows (no '=', a malformed duration).
C7_UnknownWithoutParsing ==
    (pc = "end_done" /\ ~HasMarker(end_case)) =>
        end_result = [raised |-> "none", status |-> STATUS_UNKNOWN, runtime |-> 0]

\* a file with neither word and no '=' at all, classified
C7_Witness ==
    /\ pc = "end_done"
    /\ ~HasMarker(end_case)
    /\ end_case.eq = "none"
    /\ ~Contains(end_contents, <<"=">>)
    /\ end_result.status = STATUS_UNKNOWN

----------------------------------------------------------------------------
(* process_diffs_for_one_case *)

\* A result directory: its eplusout.end (exists, text) and the names of the
\* other output files in it
EndFile(text) == [exists |-> TRUE, text |-> text]
NoEndFile == [exists |-> FALSE, text |-> <<>>]

\* the sixteen output files diffed, in the order of the code, with the
\* add_*_differences call that takes the result
DiffFiles ==
    << [file |-> "eplusout.csv",        cat |-> "math",  type |-> "ESO"],
       [file |-> "eplusmtr.csv",        cat |-> "math",  type |-> "MTR"],
       [file |-> "epluszsz.csv",        cat |-> "math",  type |-> "ZSZ"],
       [file |-> "eplusssz.csv",        cat |-> "math",  type |-> "SSZ"],
       [file |-> "eplustbl.htm",        cat |-> "table", type |-> "TBL"],
       [file |-> "eplusout.audit",      cat |-> "text",  type |-> "AUD"],
       [file |-> "eplusout.bnd",        cat |-> "text",  type |-> "BND"],
       [file |-> "eplusout.dxf",        cat |-> "text",  type |-> "DXF"],
       [file |-> "eplusout.eio",        cat |-> "text",  type |-> "EIO"],
       [file |-> "eplusout.mdd",        cat |-> "text",  type |-> "MDD"],
       [file |-> "eplusout.mtd",        cat |-> "text",  type |-> "MTD"],
       [file |-> "eplusout.rdd",        cat |-> "text",  type |-> "RDD"],
       [file |-> "eplusout.shd",        cat |-> "text",  type |-> "SHD"],
       [file |-> "eplusout.err",        cat |-> "text",  type |-> "ERR"],
       [file |-> "eplusout.delightin",  cat |-> "text",  type |-> "DL_IN"],
       [file |-> "eplusout.delightout", cat |-> "text",  type |-> "DL_OUT"] >>

FileNames == {DiffFiles[i].file : i \in 1..Len(DiffFiles)}

\* what a diff call does: it returns a result, or raises
MathResults == {"none", "small", "big"}
TextResults == {"equal", "differs"}
DiffRaises == "raise"

both_files_exist_OnlyA(base_path_a, base_path_b, common_relative_path) ==
    common_relative_path \in base_path_a.files

both_files_exist(base_path_a, base_path_b, common_relative_path) ==
    /\ common_relative_path \in base_path_a.files
    /\ common_relative_path \in base_path_b.files

\* messages of my_print
MsgExpectedFatal == "EMSTestMathAndKill Fatal-ed as expected, continuing with no diff checking on it"
MsgProcessing == "Processing (Diffs) : %s"
MsgBothFatal == "Skipping entry because it has a fatal error in both base and mod cases: %s"
MsgOneFatal == "Skipping an entry because it appears to have a fatal error in one case: %s"
MsgBothCrashed == "Skipping entry because it failed (crashed) in both base and mod cases: %s"
MsgOneCrashed == "Skipping an entry because it appears to have failed (crashed) in one case: %s"
MsgUnknownStatus == "Skipping an entry because it has an unknown end status: %s"

\* TestEntry
NoSummary == [status_case1 |-> "", runtime_case1 |-> 0, status_case2 |-> "", runtime_case2 |-> 0]
EndErrSummary(s1, t1, s2, t2) ==
    [status_case1 |-> s1, runtime_case1 |-> t1, status_case2 |-> s2, runtime_case2 |-> t2]
TestEntry(basename) == [basename |-> basename, summary_result |-> NoSummary, diffs |-> <<>>]
add_summary_result(entry, summary) == [entry EXCEPT !.summary_result = summary]
add_differences(entry, f, result) ==
    [entry EXCEPT !.diffs = Append(@, [cat |-> f.cat, type |-> f.type, result |-> result])]

\* status and runtime of one build: MISSING, 0 unless the end file exists
read_end_DefaultUnknown(dir) ==
    IF dir.end.exists THEN process_end_file(dir.end.text)
    ELSE [raised |-> "none", status |-> STATUS_UNKNOWN, runtime |-> 0]

read_end(dir) ==
    IF dir.end.exists THEN process_end_file(dir.end.text)
    ELSE [raised |-> "none", status |-> STATUS_MISSING, runtime |-> 0]

ExpectedFatalCase == "EMSTestMathAndKill"

IsExpectedFatal_EitherFatal(basename, status_case1, status_case2) ==
    /\ basename = ExpectedFatalCase
    /\ (status_case1 = STATUS_FATAL \/ status_case2 = STATUS_FATAL)

IsExpectedFatal(basename, status_case1, status_case2) ==
    /\ basename = ExpectedFatalCase
    /\ status_case1 = STATUS_FATAL /\ status_case2 = STATUS_FATAL

CountOf(status, status_case1, status_case2) ==
    (IF status_case1 = status THEN 1 ELSE 0) + (IF status_case2 = status THEN 1 ELSE 0)

\* the branch taken on the two statuses, named by the message it prints;
\* MsgProcessing is the branch that goes on to the diffs
Decision_AnySuccess(status_case1, status_case2) ==
    IF CountOf(STATUS_MISSING, status_case1, status_case2) = 0
    THEN IF CountOf(STATUS_SUCCESS, status_case1, status_case2) >= 1 THEN MsgProcessing
         ELSE MsgBothFatal
    ELSE IF CountOf(STATUS_MISSING, status_case1, status_case2) = 2 THEN MsgBothCrashed
    ELSE MsgOneCrashed

Decision(status_case1, status_case2) ==
    IF CountOf(STATUS_MISSING, status_case1, status_case2) = 0
    THEN IF CountOf(STATUS_SUCCESS, status_case1, status_case2) = 2 THEN MsgProcessing
         ELSE IF CountOf(STATUS_SUCCESS, status_case1, status_case2) = 0 THEN MsgBothFatal
         ELSE IF CountOf(STATUS_SUCCESS, status_case1, status_case2) = 1 THEN MsgOneFatal
         ELSE MsgProcessing  \* no branch taken: falls through to the diffs (the count is 0, 1 or 2)
    ELSE IF CountOf(STATUS_MISSING, status_case1, status_case2) = 2 THEN MsgBothCrashed
    ELSE IF CountOf(STATUS_MISSING, status_case1, status_case2) = 1 THEN MsgOneCrashed
    ELSE MsgUnknownStatus

\* the files whose diff call is reached if no earlier one raises
Checked(dirs) == {f \in FileNames : both_files_exist(dirs.a, dirs.b, f)}

\* one behaviour of the diff calls: for each file, the result or DiffRaises
TextFiles == {DiffFiles[i].file : i \in {j \in 1..Len(DiffFiles) : DiffFiles[j].cat = "text"}}

DiffOutcomes(dirs) ==
    {o \in [Checked(dirs) -> MathResults \cup TextResults \cup {DiffRaises}] :
        \A f \in DOMAIN o :
            o[f] \in (IF f \in TextFiles THEN TextResults ELSE MathResults) \cup {DiffRaises}}

\* the sixteen blocks from file i on: acc is the entry, the calls made and
\* the exception raised so far
RECURSIVE DispatchDiffs(_, _, _, _)
DispatchDiffs(i, dirs, out, acc) ==
    IF i > Len(DiffFiles) THEN acc
    ELSE LET f == DiffFiles[i]
         IN  IF ~both_files_exist(dirs.a, dirs.b, f.file)
             THEN DispatchDiffs(i + 1, dirs, out, acc)
             ELSE IF out[f.file] = DiffRaises
             THEN [acc EXCEPT !.diff_calls = Append(@, f.file), !.raised = "DiffError"]
             ELSE DispatchDiffs(i + 1, dirs, out,
                      [acc EXCEPT !.diff_calls = Append(@, f.file),
                                  !.entry = add_differences(@, f, out[f.file])])

\* the call from the expect-fatal check on; start is the call's state so
\* far, start.ends its locals status_case1, runtime_case1, status_case2,
\* runtime_case2.  The value is the set of ways the call can end, one per
\* behaviour of the diff calls it makes.
DecideAndDiff(this_entry, dirs, start) ==
    IF IsExpectedFatal(this_entry.basename, start.ends.status_case1, start.ends.status_case2)
    THEN {[start EXCEPT
              !.entry = add_summary_result(@,
                  EndErrSummary(STATUS_SUCCESS, start.ends.runtime_case1,
                                STATUS_SUCCESS, start.ends.runtime_case2)),
              !.printed = <<[text |-> MsgExpectedFatal, arg |-> ""]>>]}
    ELSE LET decided ==
                 [start EXCEPT
                     !.entry = add_summary_result(@, start.ends),
                     !.printed = <<[text |-> Decision(start.ends.status_case1,
                                                      start.ends.status_case2),
                                    arg |-> this_entry.basename]>>]
         IN  IF Decision(start.ends.status_case1, start.ends.status_case2) # MsgProcessing
             THEN {decided}
             ELSE {DispatchDiffs(1, dirs, out, decided) : out \in DiffOutcomes(dirs)}

\* the whole call, as the set of ways it can end: the entry as it leaves
\* the call, the locals read from the end files, what the call printed,
\* which end files it parsed, which diff calls it made, and the exception
\* that left it ("none" if it returned)
process_diffs_for_one_case(this_entry, dirs) ==
    LET parsed1 == IF dirs.a.end.exists THEN {"a"} ELSE {}
        parsed2 == IF dirs.b.end.exists THEN {"b"} ELSE {}
        start == [entry |-> this_entry,
                  ends |-> EndErrSummary(STATUS_MISSING, 0, STATUS_MISSING, 0),
                  printed |-> <<>>, parser_calls |-> {}, diff_calls |-> <<>>,
                  raised |-> "none"]
    IN  UNION
            {IF end1.raised # "none"
             THEN {[start EXCEPT !.parser_calls = parsed1, !.raised = end1.raised]}
             ELSE IF end2.raised # "none"
             THEN {[start EXCEPT
                       !.ends = EndErrSummary(end1.status, end1.runtime, STATUS_MISSING, 0),
                       !.parser_calls = parsed1 \cup parsed2,
                       !.raised = end2.raised]}
             ELSE DecideAndDiff(this_entry, dirs,
                      [start EXCEPT
                          !.ends = EndErrSummary(end1.status, end1.runtime,
                                                 end2.status, end2.runtime),
                          !.parser_calls = parsed1 \cup parsed2]) :
                end1 \in {read_end(dirs.a)}, end2 \in {read_end(dirs.b)}}

----------------------------------------------------------------------------
(* The result directories the diffs are run on *)

MaxArtifacts == 2
MaxEntries == 2

Basenames == {ExpectedFatalCase, "SimpleTest", "CrashCase"}

\* end files of a run: a success with a closing line break, a fatal broken
\* inside "Elapsed" as E+ writes it, a file with no status word, and a
\* success whose duration is not introduced by '='
SuccessEnd ==
    BreakLine(Compose(HeadSuccess, "single", Dur_2min_3_45),
              Len(Compose(HeadSuccess, "single", Dur_2min_3_45)))
FatalEnd == BreakLine(Compose(HeadFatal, "single", Dur_0_59), Len(HeadFatal.text) + 7)
UnknownEnd == Compose(HeadNeither, "single", Dur_1_42)
MalformedEnd == Compose(HeadSuccess, "none", Dur_2min_3_45)

CaseMarkers ==
    {NoEndFile, EndFile(SuccessEnd), EndFile(FatalEnd), EndFile(UnknownEnd), EndFile(MalformedEnd)}

\* the subsets of S with at most n elements
RECURSIVE SubsetsUpTo(_, _)
SubsetsUpTo(S, n) ==
    IF n = 0 THEN {{}}
    ELSE LET P == SubsetsUpTo(S, n - 1) IN P \cup {p \cup {x} : p \in P, x \in S}

\* the output files of the two directories: at most n kinds of file are
\* written at all, each by build A, by build B or by both
ListingPairs(n) ==
    UNION {UNION {{[a |-> K \ onlyB, b |-> K \ onlyA] : onlyB \in SUBSET (K \ onlyA)} :
                     onlyA \in SUBSET K} :
              K \in SubsetsUpTo(FileNames, n)}

Dirs(end_a, end_b, listing) ==
    [a |-> [end |-> end_a, files |-> listing.a], b |-> [end |-> end_b, files |-> listing.b]]

\* directories of two successful runs hold up to MaxArtifacts kinds of
\* output file, the others (whose files are never looked at) at most one
CaseDirs ==
    {Dirs(ea, eb, l) : ea \in CaseMarkers, eb \in CaseMarkers, l \in ListingPairs(1)}
    \cup {Dirs(EndFile(SuccessEnd), EndFile(SuccessEnd), l) : l \in ListingPairs(MaxArtifacts)}

----------------------------------------------------------------------------
(* SpecCase: one call of process_diffs_for_one_case on a fresh entry *)

InitCase ==
    /\ NoRun
    /\ end_case = NoCase
    /\ end_contents = <<>>
    /\ end_result = NoResult
    /\ \E d \in CaseDirs : result_dirs = <<d>>
    /\ \E basename \in {ExpectedFatalCase, "SimpleTest"} : entries = <<TestEntry(basename)>>
    /\ case_ends = NoEnds
    /\ parser_calls = {}
    /\ diff_calls = <<>>
    /\ case_raised = "none"
    /\ printed = <<>>
    /\ all_files = <<>>
    /\ diff_completed = <<>>
    /\ diff_pos = 0
    /\ pc = "case_ready"

CallProcessDiffs ==
    /\ pc = "case_ready"
    /\ \E r \in process_diffs_for_one_case(entries[1], result_dirs[1]) :
           /\ entries' = <<r.entry>>
           /\ printed' = printed \o r.printed
           /\ case_ends' = r.ends
           /\ parser_calls' = r.parser_calls
           /\ diff_calls' = r.diff_calls
           /\ case_raised' = r.raised
    /\ pc' = "case_done"
    /\ UNCHANGED <<end_case, end_contents, end_result, result_dirs, all_files,
                   diff_completed, diff_pos, run_vars>>

NextCase == CallProcessDiffs

SpecCase == InitCase /\ [][NextCase]_vars

\* what the call under SpecCase worked on and produced
TheEntry == entries[1]
TheDirs == result_dirs[1]
CaseDone == pc = "case_done"
EndsRead == case_raised \in {"none", "DiffError"}
Proceeded == printed # <<>> /\ printed[1].text = MsgProcessing
ExpectedFatalHit ==
    TheEntry.basename = ExpectedFatalCase /\ case_ends.status_case1 = STATUS_FATAL /\ case_ends.status_case2 = STATUS_FATAL

\* the decision table of the specification, by the message of each decision
TableDecision(statusA, statusB) ==
    CASE statusA = STATUS_SUCCESS /\ statusB = STATUS_SUCCESS -> MsgProcessing
      [] statusA = STATUS_FATAL /\ statusB = STATUS_FATAL -> MsgBothFatal
      [] {statusA, statusB} = {STATUS_SUCCESS, STATUS_FATAL} -> MsgOneFatal
      [] statusA = STATUS_MISSING /\ statusB = STATUS_MISSING -> MsgBothCrashed
      [] (statusA = STATUS_MISSING) # (statusB = STATUS_MISSING) -> MsgOneCrashed
      [] OTHER -> MsgUnknownStatus

\* C1: for each of the 16 status pairs the call takes the decision of the
\* specification's table (proceed, both fatal, one-sided fatal, both
\* crashed, one-sided crash, unknown/unhandled for every remaining pair),
\* except for the expected-fatal case with (FATAL, FATAL).
C1_DecisionTable ==
    (CaseDone /\ EndsRead /\ ~ExpectedFatalHit) =>
        /\ printed # <<>>
        /\ printed[1] = [text |-> TableDecision(case_ends.status_case1, case_ends.status_case2),
                         arg |-> TheEntry.basename]

\* C2: a status pair with an UNKNOWN and no MISSING is skipped through the
\* "unknown end status" branch, with that branch's own message.
C2_UnknownBranch ==
    (/\ CaseDone /\ EndsRead
     /\ STATUS_UNKNOWN \in {case_ends.status_case1, case_ends.status_case2}
     /\ STATUS_MISSING \notin {case_ends.status_case1, case_ends.status_case2}) =>
        printed = <<[text |-> MsgUnknownStatus, arg |-> TheEntry.basename]>>

SkipReasons ==
    {MsgExpectedFatal, MsgBothFatal, MsgOneFatal, MsgBothCrashed, MsgOneCrashed, MsgUnknownStatus}

\* C3: no diff call is made and no diff record attached unless both end
\* files gave SUCCESS; for every other status pair the call returns without
\* raising, having printed exactly one skip reason.
C3_NoDiffUnlessBothSuccess ==
    CaseDone =>
        /\ (diff_calls # <<>> \/ TheEntry.diffs # <<>>) =>
               /\ EndsRead
               /\ case_ends.status_case1 = STATUS_SUCCESS /\ case_ends.status_case2 = STATUS_SUCCESS
               /\ TheEntry.summary_result.status_case1 = STATUS_SUCCESS
               /\ TheEntry.summary_result.status_case2 = STATUS_SUCCESS
        /\ (EndsRead /\ ~(case_ends.status_case1 = STATUS_SUCCESS /\ case_ends.status_case2 = STATUS_SUCCESS)) =>
               /\ case_raised = "none"
               /\ Len(printed) = 1
               /\ printed[1].text \in SkipReasons
               /\ diff_calls = <<>>
               /\ TheEntry.diffs = <<>>

\* a (SUCCESS, FATAL) entry whose output file exists in both directories,
\* skipped with one message and nothing diffed
C3_Witness ==
    /\ CaseDone
    /\ case_ends.status_case1 = STATUS_SUCCESS /\ case_ends.status_case2 = STATUS_FATAL
    /\ TheDirs.a.files \cap TheDirs.b.files # {}
    /\ Len(printed) = 1
    /\ diff_calls = <<>>

\* C4: the expected-fatal exception applies only to the designated case with
\* both builds FATAL: then SUCCESS/SUCCESS with both parsed runtimes is
\* recorded, the expected-fatal message is the only one and no diff is
\* attempted; in every other case the true statuses and runtimes are
\* recorded and the general matrix decides.
C4_ExpectedFatalFirst ==
    (CaseDone /\ EndsRead) =>
        IF ExpectedFatalHit
        THEN /\ TheEntry.summary_result
                    = EndErrSummary(STATUS_SUCCESS, case_ends.runtime_case1, STATUS_SUCCESS, case_ends.runtime_case2)
             /\ printed = <<[text |-> MsgExpectedFatal, arg |-> ""]>>
             /\ diff_calls = <<>> /\ TheEntry.diffs = <<>>
             /\ case_raised = "none"
        ELSE /\ TheEntry.summary_result
                    = EndErrSummary(case_ends.status_case1, case_ends.runtime_case1, case_ends.status_case2, case_ends.runtime_case2)
             /\ printed # <<>>
             /\ printed[1].text # MsgExpectedFatal
             /\ printed[1].text = Decision(case_ends.status_case1, case_ends.status_case2)

\* the designated case with two fatal end files, recorded as two successes
\* that keep the runtime parsed from the fatal end file
C4_Witness ==
    /\ CaseDone
    /\ TheEntry.basename = ExpectedFatalCase
    /\ TheDirs.a.end = EndFile(FatalEnd) /\ TheDirs.b.end = EndFile(FatalEnd)
    /\ TheEntry.summary_result.status_case1 = STATUS_SUCCESS
    /\ TheEntry.summary_result.runtime_case1 > 0
    /\ printed = <<[text |-> MsgExpectedFatal, arg |-> ""]>>

InBoth(f) == f \in TheDirs.a.files /\ f \in TheDirs.b.files
CallCount(f) == Cardinality({k \in 1..Len(diff_calls) : diff_calls[k] = f})
RecordsOf(i) ==
    Cardinality({k \in 1..Len(TheEntry.diffs) :
                    /\ TheEntry.diffs[k].cat = DiffFiles[i].cat
                    /\ TheEntry.diffs[k].type = DiffFiles[i].type})
FileIndex(f) == CHOOSE i \in 1..Len(DiffFiles) : DiffFiles[i].file = f

\* C9: for an entry that reached PROCEED and each of the 16 kinds, the diff
\* call is made if and only if the file exists in both directories, and then
\* exactly one record of that kind is attached; never more than one.
C9_DiffIffBothExist ==
    (CaseDone /\ Proceeded) =>
        \A i \in 1..Len(DiffFiles) :
            /\ CallCount(DiffFiles[i].file) = (IF InBoth(DiffFiles[i].file) THEN 1 ELSE 0)
            /\ RecordsOf(i) = (IF InBoth(DiffFiles[i].file) THEN 1 ELSE 0)

\* C9 as amended: for an entry that reached PROCEED, the diff call of a kind
\* is made at most once and only if the file exists in both directories, and
\* a record of a kind is attached at most once and only by a call that
\* returned.  The kinds are taken in a fixed order and a call that raises
\* ends the entry: every kind present in both directories up to and
\* including the first whose call raises is called (all of them when none
\* raises), each call that returned attached its record, and no later kind
\* is called.
C9_DiffOnlyIfBothExist ==
    (CaseDone /\ Proceeded) =>
        /\ \A i \in 1..Len(DiffFiles) :
               /\ CallCount(DiffFiles[i].file) <= 1
               /\ CallCount(DiffFiles[i].file) = 1 => InBoth(DiffFiles[i].file)
               /\ RecordsOf(i) <= 1
               /\ RecordsOf(i) = 1 => CallCount(DiffFiles[i].file) = 1
               /\ (case_raised = "none" /\ InBoth(DiffFiles[i].file)) =>
                      CallCount(DiffFiles[i].file) = 1 /\ RecordsOf(i) = 1
        /\ Len(TheEntry.diffs) <= Len(diff_calls)
        /\ case_raised # "none" =>
               /\ diff_calls # <<>>
               /\ LET last == FileIndex(diff_calls[Len(diff_calls)])
                  IN  /\ RecordsOf(last) = 0
                      /\ \A i \in 1..(last - 1) :
                             InBoth(DiffFiles[i].file) =>
                                 CallCount(DiffFiles[i].file) = 1 /\ RecordsOf(i) = 1
                      /\ \A i \in (last + 1)..Len(DiffFiles) :
                             CallCount(DiffFiles[i].file) = 0

\* an entry that proceeded with one file in both directories (diffed and
\* recorded) and another in build A's only (not diffed)
C9_Witness ==
    /\ CaseDone /\ Proceeded
    /\ case_raised = "none"
    /\ \E f \in FileNames : InBoth(f) /\ CallCount(f) = 1
    /\ \E f \in TheDirs.a.files \ TheDirs.b.files : CallCount(f) = 0
    /\ Len(TheEntry.diffs) = 1

\* C10: when the end file is absent for exactly one build, that build is
\* recorded MISSING with runtime 0 and its end file is not parsed, the other
\* build is recorded as process_end_file returned it, the entry is skipped
\* as a one-sided crash whatever the other status, and nothing is diffed.
C10_OneSidedCrash ==
    /\ (CaseDone /\ ~TheDirs.a.end.exists /\ TheDirs.b.end.exists
            /\ process_end_file(TheDirs.b.end.text).raised = "none") =>
           /\ TheEntry.summary_result
                  = EndErrSummary(STATUS_MISSING, 0,
                                  process_end_file(TheDirs.b.end.text).status,
                                  process_end_file(TheDirs.b.end.text).runtime)
           /\ parser_calls = {"b"}
           /\ printed = <<[text |-> MsgOneCrashed, arg |-> TheEntry.basename]>>
           /\ diff_calls = <<>> /\ TheEntry.diffs = <<>>
           /\ case_raised = "none"
    /\ (CaseDone /\ TheDirs.a.end.exists /\ ~TheDirs.b.end.exists
            /\ process_end_file(TheDirs.a.end.text).raised = "none") =>
           /\ TheEntry.summary_result
                  = EndErrSummary(process_end_file(TheDirs.a.end.text).status,
                                  process_end_file(TheDirs.a.end.text).runtime,
                                  STATUS_MISSING, 0)
           /\ parser_calls = {"a"}
           /\ printed = <<[text |-> MsgOneCrashed, arg |-> TheEntry.basename]>>
           /\ diff_calls = <<>> /\ TheEntry.diffs = <<>>
           /\ case_raised = "none"

\* build B's end file absent, build A's without a status word: recorded
\* (UNKNOWN, MISSING) and skipped as a one-sided crash
C10_Witness ==
    /\ CaseDone
    /\ TheDirs.a.end = EndFile(UnknownEnd) /\ ~TheDirs.b.end.exists
    /\ TheEntry.summary_result = EndErrSummary(STATUS_UNKNOWN, 0, STATUS_MISSING, 0)
    /\ printed = <<[text |-> MsgOneCrashed, arg |-> TheEntry.basename]>>

----------------------------------------------------------------------------
(* Spec: diff_logs_for_build over the entry list *)

\* entry lists: up to MaxEntries cases with different names
EntryLists ==
    {s \in UNION {[1..n -> Basenames] : n \in 1..MaxEntries} :
        \A i, j \in 1..Len(s) : s[i] = s[j] => i = j}

\* result directories after the two builds ran: end files absent, success,
\* fatal or malformed and no other output, or two successes with the csv
\* and the err file in both
NoOutputs == [a |-> {}, b |-> {}]
SameOutputs ==
    [a |-> {"eplusout.csv", "eplusout.err"}, b |-> {"eplusout.csv", "eplusout.err"}]
SuiteMarkers == {NoEndFile, EndFile(SuccessEnd), EndFile(FatalEnd), EndFile(MalformedEnd)}
SuiteDirs ==
    {Dirs(ea, eb, NoOutputs) : ea \in SuiteMarkers, eb \in SuiteMarkers}
    \cup {Dirs(EndFile(SuccessEnd), EndFile(SuccessEnd), SameOutputs)}

MsgUnexpected ==
    "Unexpected error processing diffs for %s, could indicate an E+ crash caused corrupted files"
MsgMessage == "Message: %s"

Init ==
    /\ NoRun
    /\ end_case = NoCase
    /\ end_contents = <<>>
    /\ end_result = NoResult
    /\ \E names \in EntryLists :
           /\ entries = [i \in 1..Len(names) |-> TestEntry(names[i])]
           /\ result_dirs \in [1..Len(names) -> SuiteDirs]
    /\ case_ends = NoEnds
    /\ parser_calls = {}
    /\ diff_calls = <<>>
    /\ case_raised = "none"
    /\ printed = <<>>
    /\ all_files = <<>>
    /\ diff_completed = <<>>
    /\ diff_pos = 0
    /\ pc = "diffing"

\* the loop pass with my_diffcompleted at the end of the try body instead of
\* in a finally clause
DiffNextEntry_NoFinally ==
    /\ pc = "diffing"
    /\ diff_pos < Len(entries)
    /\ \E r \in process_diffs_for_one_case(entries[diff_pos + 1], result_dirs[diff_pos + 1]) :
           /\ entries' = [entries EXCEPT ![diff_pos + 1] = r.entry]
           /\ case_ends' = r.ends
           /\ parser_calls' = r.parser_calls
           /\ diff_calls' = r.diff_calls
           /\ case_raised' = r.raised
           /\ IF r.raised = "none"
              THEN /\ all_files' = Append(all_files, diff_pos + 1)
                   /\ printed' = printed \o r.printed
                   /\ diff_completed' = Append(diff_completed, entries[diff_pos + 1].basename)
              ELSE /\ all_files' = all_files
                   /\ printed' = printed \o r.printed \o
                          <<[text |-> MsgUnexpected, arg |-> entries[diff_pos + 1].basename],
                            [text |-> MsgMessage, arg |-> r.raised]>>
                   /\ diff_completed' = diff_completed
    /\ diff_pos' = diff_pos + 1
    /\ UNCHANGED <<end_case, end_contents, end_result, result_dirs, pc, run_vars>>

\* the loop pass without the except clause: the exception leaves
\* diff_logs_for_build after the finally clause
DiffNextEntry_Propagates ==
    /\ pc = "diffing"
    /\ diff_pos < Len(entries)
    /\ \E r \in process_diffs_for_one_case(entries[diff_pos + 1], result_dirs[diff_pos + 1]) :
           /\ entries' = [entries EXCEPT ![diff_pos + 1] = r.entry]
           /\ case_ends' = r.ends
           /\ parser_calls' = r.parser_calls
           /\ diff_calls' = r.diff_calls
           /\ case_raised' = r.raised
           /\ printed' = printed \o r.printed
           /\ IF r.raised = "none"
              THEN /\ all_files' = Append(all_files, diff_pos + 1)
                   /\ pc' = pc
              ELSE /\ all_files' = all_files
                   /\ pc' = "raised"
    /\ diff_completed' = Append(diff_completed, entries[diff_pos + 1].basename)
    /\ diff_pos' = diff_pos + 1
    /\ UNCHANGED <<end_case, end_contents, end_result, result_dirs, run_vars>>

\* one pass of the loop: try process_diffs_for_one_case and add_test_entry,
\* on an exception print the two messages instead, finally my_diffcompleted.
\* all_files holds the position in entries of each entry added.
DiffNextEntry ==
    /\ pc = "diffing"
    /\ diff_pos < Len(entries)
    /\ \E r \in process_diffs_for_one_case(entries[diff_pos + 1], result_dirs[diff_pos + 1]) :
           /\ entries' = [entries EXCEPT ![diff_pos + 1] = r.entry]
           /\ case_ends' = r.ends
           /\ parser_calls' = r.parser_calls
           /\ diff_calls' = r.diff_calls
           /\ case_raised' = r.raised
           /\ IF r.raised = "none"
              THEN /\ all_files' = Append(all_files, diff_pos + 1)
                   /\ printed' = printed \o r.printed
              ELSE /\ all_files' = all_files
                   /\ printed' = printed \o r.printed \o
                          <<[text |-> MsgUnexpected, arg |-> entries[diff_pos + 1].basename],
                            [text |-> MsgMessage, arg |-> r.raised]>>
    /\ diff_completed' = Append(diff_completed, entries[diff_pos + 1].basename)
    /\ diff_pos' = diff_pos + 1
    /\ UNCHANGED <<end_case, end_contents, end_result, result_dirs, pc, run_vars>>

\* the loop is over: return completed_structure
ReturnCompleted ==
    /\ pc = "diffing"
    /\ diff_pos = Len(entries)
    /\ pc' = "diffed"
    /\ UNCHANGED <<end_case, end_contents, end_result, entries, result_dirs, case_ends,
                   parser_calls, diff_calls, case_raised, printed, all_files,
                   diff_completed, diff_pos, run_vars>>

MsgWritingRuntime == "Writing runtime summary file"
MsgRuntimeWritten == "Runtime summary written successfully"
MsgRuntimeNotWritten == "Could not write runtime summary file: %s"
MsgWritingResults == "Writing simulation results summary file"
MsgResultsWritten == "Results summary written successfully"
MsgResultsNotWritten == "Could not write results summary file: %s"
MsgSuiteComplete == "Test suite complete"

\* the rest of run_test_suite after diff_logs_for_build returned: the two
\* summary files, each written or its exception printed, then my_alldone
\* and the return of the response
FinishSuite ==
    /\ pc = "diffed"
    /\ \E csv_written \in BOOLEAN, json_written \in BOOLEAN :
           /\ printed' = printed \o
                  <<[text |-> MsgWritingRuntime, arg |-> ""],
                    [text |-> IF csv_written THEN MsgRuntimeWritten ELSE MsgRuntimeNotWritten,
                     arg |-> ""],
                    [text |-> MsgWritingResults, arg |-> ""],
                    [text |-> IF json_written THEN MsgResultsWritten ELSE MsgResultsNotWritten,
                     arg |-> ""],
                    [text |-> MsgSuiteComplete, arg |-> ""]>>
           /\ summary_files' = (IF csv_written THEN {"run_times.csv"} ELSE {})
                                  \cup (IF json_written THEN {"test_results.json"} ELSE {})
    /\ events' = Append(events, "alldone")
    /\ response' = "completed_structure"
    /\ pc' = "returned"
    /\ UNCHANGED <<end_case, end_contents, end_result, entries, result_dirs, case_ends,
                   parser_calls, diff_calls, case_raised, all_files, diff_completed, diff_pos,
                   number_of_threads, run_case, id_like_to_stop_now, build, stage_pos,
                   energy_plus_runs, run_pos, task_queue, done_queue, workers, stage_log,
                   exec_log, case_completed, phase_flag, disk, now, runners, text_case, text_result,
                   weather, gui>>

Next == DiffNextEntry \/ ReturnCompleted \/ FinishSuite

Spec == Init /\ [][Next]_vars

InAllFiles(i) == \E k \in 1..Len(all_files) : all_files[k] = i

\* C8: when an end file carries a status word and a malformed duration, the
\* parse failure leaves process_end_file and the entry ends up in the
\* SuiteResult with status UNKNOWN for that build.
C8_MalformedRecordedUnknown ==
    \A i \in 1..diff_pos :
        /\ result_dirs[i].a.end = EndFile(MalformedEnd) =>
               /\ process_end_file(MalformedEnd).raised # "none"
               /\ InAllFiles(i)
               /\ entries[i].summary_result.status_case1 = STATUS_UNKNOWN
        /\ result_dirs[i].b.end = EndFile(MalformedEnd) =>
               /\ process_end_file(MalformedEnd).raised # "none"
               /\ InAllFiles(i)
               /\ entries[i].summary_result.status_case2 = STATUS_UNKNOWN

\* C11: after a suite run that is not cancelled the all-cases bucket holds
\* every entry of the input list exactly once, whatever happened while the
\* entry was executed or diffed.
C11_AllCasesEveryEntry ==
    pc \in {"diffed", "returned"} =>
        \A i \in 1..Len(entries) :
            Cardinality({k \in 1..Len(all_files) : all_files[k] = i}) = 1

DiffErrors == {"IndexError", "ValueError", "DiffError"}

\* the call for entry i raised: the two messages of the except clause,
\* naming the entry and the error, were printed one after the other
ReportedRaise(i) ==
    \E k \in 1..(Len(printed) - 1) :
        /\ printed[k] = [text |-> MsgUnexpected, arg |-> entries[i].basename]
        /\ printed[k + 1].text = MsgMessage
        /\ printed[k + 1].arg \in DiffErrors

\* C12, in every state: no exception leaves diff_logs_for_build; an entry
\* whose call raised has its two messages printed; a diff call that raised
\* leaves the summary and the records of the calls before it on the entry;
\* every entry up to the current one was diffed and announced, the ones
\* after a raise included; the run ends with my_alldone.
C12_State ==
    /\ pc # "raised"
    /\ \A i \in 1..diff_pos : ~InAllFiles(i) => ReportedRaise(i)
    /\ diff_completed = [i \in 1..diff_pos |-> entries[i].basename]
    /\ (diff_pos > 0 /\ case_raised = "DiffError") =>
           /\ ~InAllFiles(diff_pos)
           /\ entries[diff_pos].summary_result # NoSummary
           /\ Len(entries[diff_pos].diffs) = Len(diff_calls) - 1
    /\ pc = "returned" =>
           /\ diff_pos = Len(entries)
           /\ events # <<>> /\ events[Len(events)] = "alldone"
           /\ response = "completed_structure"

\* C12, in every step: records attached to an entry stay attached
C12_Step ==
    /\ Len(entries') = Len(entries)
    /\ \A i \in 1..Len(entries) :
           /\ Len(entries'[i].diffs) >= Len(entries[i].diffs)
           /\ SubSeq(entries'[i].diffs, 1, Len(entries[i].diffs)) = entries[i].diffs

\* C12: an exception raised while one entry's diffs are processed is caught
\* at that entry in diff_logs_for_build, a message naming the entry and one
\* naming the error are printed, the diff records already attached to the
\* entry stay attached, every following entry is still diffed, and the run
\* still ends with onSuiteComplete.
C12_DiffExceptionContained == []C12_State /\ [][C12_Step]_vars

\* two entries: the first one's second diff call raised after the first
\* attached its record, the second entry was diffed and added, and the run
\* ended with my_alldone
C12_Witness ==
    /\ pc = "returned"
    /\ Len(entries) = 2
    /\ ~InAllFiles(1) /\ Len(entries[1].diffs) = 1 /\ ReportedRaise(1)
    /\ InAllFiles(2)
    /\ diff_completed = <<entries[1].basename, entries[2].basename>>
    /\ events = <<"alldone">>

----------------------------------------------------------------------------
(* SpecSuite: run_test_suite from the start of its thread, with run_build on
   the serial and on the parallel path, the worker processes, the caller's
   cancel request, then diff_logs_for_build and the end of the run *)

MaxCases == 2
MaxWorkers == 2

SuiteCaseNames == <<"SimpleTest", "CrashCase", "OtherCase", "LastCase">>

\* TestCaseCompleted.__init__
TestCaseCompleted(run_directory, case_name, run_status, error_msg_reported_already, name_of_thread) ==
    [run_directory |-> run_directory, case_name |-> case_name, run_success |-> run_status,
     muffle_err_msg |-> error_msg_reported_already, name_of_thread |-> name_of_thread]

\* tasks of the job list and of the task queue, and the 'STOP' sentinel
Task(index) == [kind |-> "task", index |-> index]
STOP == [kind |-> "STOP", index |-> 0]

\* what one run of EnergyPlus does
ExecOutcomes == {"success", "fatal", "crash"}

\* the name of the process that runs execute_energyplus: the orchestrator on
\* the serial path, a worker process on the parallel path (which of the
\* workers it was is not kept)
MainProcess == "MainProcess"
WorkerLabel(k) == "Process-N"

\* energyplus.execute_energyplus: the tuple it returns
execute_energyplus(build_tree, entry_name, outcome, worker_label) ==
    <<build_tree, entry_name, outcome = "success", FALSE, worker_label>>

\* the run directory execute_energyplus leaves: a success end file and the
\* err output, a fatal end file, or neither
RunDirAfter(outcome) ==
    CASE outcome = "success" -> [end |-> EndFile(SuccessEnd), files |-> {"eplusout.err"}]
      [] outcome = "fatal" -> [end |-> EndFile(FatalEnd), files |-> {}]
      [] OTHER -> [end |-> NoEndFile, files |-> {}]

EmptyRunDir == [end |-> NoEndFile, files |-> {}]

\* what staging one entry meets: an input to run (idf without
\* ExternalInterface, or imf), an idf that names ExternalInterface, no input
\* in either form, or a directory or copy call that raises
StageKinds == {"found", "external", "none", "raise"}

MsgNoInput == "Input file doesn't exist in either idf or imf form:"
MsgIdfPath == "   IDF: %s"
MsgImfPath == "   IMF: %s"
MsgSkipFMU == "Skipping an FMU based file as this is not set up to run yet"
TestOutputDir == "test_output_dir"

\* the loop body with the missing-input branch falling through to the job list
stage_entry_QueuesMissing(kind, basename, index) ==
    CASE kind = "raise" ->
             [raised |-> TRUE, printed |-> <<>>, completed |-> <<>>, runs |-> <<>>]
      [] kind = "external" ->
             [raised |-> FALSE, printed |-> <<[text |-> MsgSkipFMU, arg |-> ""]>>,
              completed |-> <<>>, runs |-> <<>>]
      [] kind = "none" ->
             [raised |-> FALSE,
              printed |-> <<[text |-> MsgNoInput, arg |-> ""],
                            [text |-> MsgIdfPath, arg |-> basename],
                            [text |-> MsgImfPath, arg |-> basename]>>,
              completed |-> <<TestCaseCompleted(TestOutputDir, basename, FALSE, FALSE, "")>>,
              runs |-> <<Task(index)>>]
      [] OTHER ->
             [raised |-> FALSE, printed |-> <<>>, completed |-> <<>>, runs |-> <<Task(index)>>]

\* one pass of the staging loop of run_build: what it raises, prints, hands
\* to my_casecompleted and appends to energy_plus_runs
stage_entry(kind, basename, index) ==
    CASE kind = "raise" ->
             [raised |-> TRUE, printed |-> <<>>, completed |-> <<>>, runs |-> <<>>]
      [] kind = "external" ->
             [raised |-> FALSE, printed |-> <<[text |-> MsgSkipFMU, arg |-> ""]>>,
              completed |-> <<>>, runs |-> <<>>]
      [] kind = "none" ->
             [raised |-> FALSE,
              printed |-> <<[text |-> MsgNoInput, arg |-> ""],
                            [text |-> MsgIdfPath, arg |-> basename],
                            [text |-> MsgImfPath, arg |-> basename]>>,
              completed |-> <<TestCaseCompleted(TestOutputDir, basename, FALSE, FALSE, "")>>,
              runs |-> <<>>]
      [] OTHER ->
             [raised |-> FALSE, printed |-> <<>>, completed |-> <<>>, runs |-> <<Task(index)>>]

\* "if self.id_like_to_stop_now: self.my_cancelled(); return", without the return
checkpoint_NoReturn(stop) == [cancel |-> stop, proceed |-> TRUE]

\* "if self.id_like_to_stop_now: self.my_cancelled(); return"
checkpoint(stop) == [cancel |-> stop, proceed |-> ~stop]

diff_frame == <<case_ends, parser_calls, diff_calls, case_raised, all_files, diff_completed,
                diff_pos>>
end_frame == <<end_case, end_contents, end_result>>
build_frame == <<build, stage_pos, energy_plus_runs, run_pos, task_queue, done_queue, workers>>

\* a runner as its constructor leaves it, launched on run_test_suite, but for
\* its entry list and its number of threads
InitRun ==
    /\ end_case = NoCase
    /\ end_contents = <<>>
    /\ end_result = NoResult
    /\ result_dirs = [i \in 1..MaxCases |-> [a |-> EmptyRunDir, b |-> EmptyRunDir]]
    /\ case_ends = NoEnds
    /\ parser_calls = {}
    /\ diff_calls = <<>>
    /\ case_raised = "none"
    /\ printed = <<>>
    /\ all_files = <<>>
    /\ diff_completed = <<>>
    /\ diff_pos = 0
    /\ pc = "launched"
    /\ run_case \in [{"a", "b"} -> BOOLEAN]
    /\ id_like_to_stop_now = FALSE
    /\ build = "none"
    /\ stage_pos = 0
    /\ energy_plus_runs = <<>>
    /\ run_pos = 0
    /\ task_queue = <<>>
    /\ done_queue = <<>>
    /\ workers = <<>>
    /\ stage_log = <<>>
    /\ exec_log = {}
    /\ case_completed = <<>>
    /\ events = <<>>
    /\ response = "None"
    /\ summary_files = {}
    /\ phase_flag = [b \in {"a", "b"} |-> "none"]
    /\ disk = {}
    /\ now = 0
    /\ runners = <<>>
    /\ NoText /\ NoWeather /\ NoGui

InitSuite ==
    /\ InitRun
    /\ entries = [i \in 1..MaxCases |-> TestEntry(SuiteCaseNames[i])]
    /\ number_of_threads \in 1..MaxWorkers

RunEnded == pc \in {"returned", "raised"}

\* the caller asks to stop while the suite is running: run_button of the
\* main window, or interrupt_please
Cancel ==
    /\ pc \in {"launched", "prepare", "builds", "staging", "serial", "starting_workers",
               "collecting", "diffing", "diffed"}
    /\ ~id_like_to_stop_now
    /\ id_like_to_stop_now' = TRUE
    /\ UNCHANGED <<end_frame, entries, result_dirs, diff_frame, printed, pc, number_of_threads,
                   run_case, build_frame, stage_log, exec_log, case_completed, events,
                   response, summary_files, phase_flag, disk, now,
                   runners, text_case, text_result,
                   weather, gui>>

\* run_test_suite, first statement: "reset this flag"
ResetFlag ==
    /\ pc = "launched"
    /\ id_like_to_stop_now' = FALSE
    /\ pc' = "prepare"
    /\ UNCHANGED <<end_frame, entries, result_dirs, diff_frame, printed, number_of_threads,
                   run_case, build_frame, stage_log, exec_log, case_completed, events,
                   response, summary_files, phase_flag, disk, now,
                   runners, text_case, text_result,
                   weather, gui>>

MsgCreatedDirs == "Created test directories at <build-dir>/%s"

\* directories under the build directories: a path is the sequence of its
\* parts below the build, and a directory on disk is kept with the runner
\* and the entry it was made for (entry 0: the output root)
OutputRoot(build_tree, d_test) == <<build_tree, d_test>>
test_run_directory(build_tree, this_test_dir, basename) == <<build_tree, this_test_dir, basename>>
Owner(runner, entry) == [runner |-> runner, entry |-> entry]
ThisRunner == 0

IsPrefix(p, q) == Len(p) <= Len(q) /\ SubSeq(q, 1, Len(p)) = p

\* os.path.exists, os.mkdir, shutil.rmtree
Exists(d, path) == \E x \in d : x.dir = path
mkdir(d, path, by) == d \cup {[dir |-> path, by |-> by]}
rmtree(d, path) == {x \in d : ~IsPrefix(path, x.dir)}

\* prepare_dir_structure with a failing os.mkdir passed over
prepare_dir_structure_Absorbs(d, d_test, by, failing) ==
    LET root_a == OutputRoot("a", d_test)
        root_b == OutputRoot("b", d_test)
        after_a == IF Exists(d, root_a) \/ failing = "a" THEN d ELSE mkdir(d, root_a, by)
    IN  [raised |-> FALSE,
         disk |-> IF Exists(after_a, root_b) \/ failing = "b" THEN after_a
                  ELSE mkdir(after_a, root_b, by)]

\* prepare_dir_structure: the output root of each build is made unless it
\* exists; failing names the build whose os.mkdir raises, if it is called
prepare_dir_structure(d, d_test, by, failing) ==
    LET root_a == OutputRoot("a", d_test)
        root_b == OutputRoot("b", d_test)
        after_a == IF Exists(d, root_a) THEN d ELSE mkdir(d, root_a, by)
    IN  IF failing = "a" /\ ~Exists(d, root_a) THEN [raised |-> TRUE, disk |-> d]
        ELSE IF failing = "b" /\ ~Exists(after_a, root_b) THEN [raised |-> TRUE, disk |-> after_a]
        ELSE [raised |-> FALSE,
              disk |-> IF Exists(after_a, root_b) THEN after_a ELSE mkdir(after_a, root_b, by)]

\* run_build, the first lines of the staging loop: the run directory of the
\* entry is removed if it exists, and made
make_run_directory(d, path, by) ==
    mkdir(IF Exists(d, path) THEN rmtree(d, path) ELSE d, path, by)

\* run_test_suite: prepare_dir_structure, whose mkdir may raise, then the
\* first checkpoint and my_starting
PrepareDirStructure ==
    /\ pc = "prepare"
    /\ \E failing \in {"none", "a", "b"} :
          LET r == prepare_dir_structure(disk, TestOutputDir, Owner(ThisRunner, 0), failing) IN
          /\ disk' = r.disk
          /\ IF r.raised
             THEN /\ pc' = "raised"
                  /\ UNCHANGED <<printed, events>>
             ELSE LET c == checkpoint(id_like_to_stop_now) IN
                  /\ printed' = Append(printed, [text |-> MsgCreatedDirs, arg |-> TestOutputDir])
                  /\ events' = events \o (IF c.cancel THEN <<"cancelled">> ELSE <<>>)
                                      \o (IF c.proceed THEN <<"starting">> ELSE <<>>)
                  /\ pc' = IF c.proceed THEN "builds" ELSE "returned"
    /\ UNCHANGED <<end_frame, entries, result_dirs, diff_frame, number_of_threads, run_case,
                   id_like_to_stop_now, build_frame, stage_log, exec_log, case_completed,
                   response, summary_files, phase_flag, now, runners, text_case, text_result,
                   weather, gui>>

\* my_simulationscomplete called after each build instead of after the last
NextBuild_AnnouncesEarly ==
    /\ pc = "builds"
    /\ LET c == IF build # "none" THEN checkpoint(id_like_to_stop_now)
                ELSE [cancel |-> FALSE, proceed |-> TRUE]
           next == IF build = "none" /\ run_case.a THEN "a"
                   ELSE IF build # "b" /\ run_case.b THEN "b"
                   ELSE "done"
       IN  /\ events' = events \o (IF c.cancel THEN <<"cancelled">> ELSE <<>>)
                               \o (IF c.proceed /\ (next = "done" \/ build # "none")
                                   THEN <<"simulationscomplete">> ELSE <<>>)
           /\ pc' = IF ~c.proceed THEN "returned"
                    ELSE IF next = "done" THEN "diffing" ELSE "staging"
           /\ build' = IF c.proceed /\ next # "done" THEN next ELSE build
    /\ stage_pos' = 0
    /\ energy_plus_runs' = <<>>
    /\ run_pos' = 0
    /\ task_queue' = <<>>
    /\ done_queue' = <<>>
    /\ workers' = <<>>
    /\ UNCHANGED <<end_frame, entries, result_dirs, diff_frame, printed, number_of_threads,
                   run_case, id_like_to_stop_now, stage_log, exec_log, case_completed,
                   response, summary_files, phase_flag, disk, now,
                   runners, text_case, text_result,
                   weather, gui>>

\* both builds run whatever run_case says
NextBuild_RunsAll ==
    /\ pc = "builds"
    /\ LET c == IF build # "none" THEN checkpoint(id_like_to_stop_now)
                ELSE [cancel |-> FALSE, proceed |-> TRUE]
           next == IF build = "none" THEN "a"
                   ELSE IF build # "b" THEN "b"
                   ELSE "done"
       IN  /\ events' = events \o (IF c.cancel THEN <<"cancelled">> ELSE <<>>)
                               \o (IF c.proceed /\ next = "done"
                                   THEN <<"simulationscomplete">> ELSE <<>>)
           /\ pc' = IF ~c.proceed THEN "returned"
                    ELSE IF next = "done" THEN "diffing" ELSE "staging"
           /\ build' = IF c.proceed /\ next # "done" THEN next ELSE build
    /\ stage_pos' = 0
    /\ energy_plus_runs' = <<>>
    /\ run_pos' = 0
    /\ task_queue' = <<>>
    /\ done_queue' = <<>>
    /\ workers' = <<>>
    /\ UNCHANGED <<end_frame, entries, result_dirs, diff_frame, printed, number_of_threads,
                   run_case, id_like_to_stop_now, stage_log, exec_log, case_completed,
                   response, summary_files, phase_flag, disk, now,
                   runners, text_case, text_result,
                   weather, gui>>

\* the checkpoint after the last build moved below my_simulationscomplete
NextBuild_LateCheckpoint ==
    /\ pc = "builds"
    /\ LET c == IF build # "none" THEN checkpoint(id_like_to_stop_now)
                ELSE [cancel |-> FALSE, proceed |-> TRUE]
           next == IF build = "none" /\ run_case.a THEN "a"
                   ELSE IF build # "b" /\ run_case.b THEN "b"
                   ELSE "done"
       IN  /\ events' = events \o (IF next = "done" THEN <<"simulationscomplete">> ELSE <<>>)
                               \o (IF c.cancel THEN <<"cancelled">> ELSE <<>>)
           /\ pc' = IF ~c.proceed THEN "returned"
                    ELSE IF next = "done" THEN "diffing" ELSE "staging"
           /\ build' = IF c.proceed /\ next # "done" THEN next ELSE build
    /\ stage_pos' = 0
    /\ energy_plus_runs' = <<>>
    /\ run_pos' = 0
    /\ task_queue' = <<>>
    /\ done_queue' = <<>>
    /\ workers' = <<>>
    /\ UNCHANGED <<end_frame, entries, result_dirs, diff_frame, printed, number_of_threads,
                   run_case, id_like_to_stop_now, stage_log, exec_log, case_completed,
                   response, summary_files, phase_flag, disk, now,
                   runners, text_case, text_result,
                   weather, gui>>

\* run_test_suite between the calls of run_build: the checkpoint after a
\* build ran, then the next build that is to run, or my_simulationscomplete
\* and the call of diff_logs_for_build.  The job list and the queues are
\* locals of run_build, gone when it returned; its worker processes, left
\* with a 'STOP' each, are followed no further.
NextBuild ==
    /\ pc = "builds"
    /\ LET c == IF build # "none" THEN checkpoint(id_like_to_stop_now)
                ELSE [cancel |-> FALSE, proceed |-> TRUE]
           next == IF build = "none" /\ run_case.a THEN "a"
                   ELSE IF build # "b" /\ run_case.b THEN "b"
                   ELSE "done"
       IN  /\ events' = events \o (IF c.cancel THEN <<"cancelled">> ELSE <<>>)
                               \o (IF c.proceed /\ next = "done"
                                   THEN <<"simulationscomplete">> ELSE <<>>)
           /\ pc' = IF ~c.proceed THEN "returned"
                    ELSE IF next = "done" THEN "diffing" ELSE "staging"
           /\ build' = IF c.proceed /\ next # "done" THEN next ELSE build
    /\ stage_pos' = 0
    /\ energy_plus_runs' = <<>>
    /\ run_pos' = 0
    /\ task_queue' = <<>>
    /\ done_queue' = <<>>
    /\ workers' = <<>>
    /\ UNCHANGED <<end_frame, entries, result_dirs, diff_frame, printed, number_of_threads,
                   run_case, id_like_to_stop_now, stage_log, exec_log, case_completed,
                   response, summary_files, phase_flag, disk, now,
                   runners, text_case, text_result,
                   weather, gui>>

\* run_build, one pass of the loop over the entries: the run directory,
\* then the inputs; a pass that raises does so at os.mkdir or after it
StageEntry ==
    /\ pc = "staging"
    /\ stage_pos < Len(entries)
    /\ \E kind \in StageKinds :
          LET r == stage_entry(kind, entries[stage_pos + 1].basename, stage_pos + 1)
              dir == test_run_directory(build, TestOutputDir, entries[stage_pos + 1].basename)
          IN
          /\ stage_log' = Append(stage_log,
                                 [build |-> build, index |-> stage_pos + 1, kind |-> kind])
          /\ pc' = IF r.raised THEN "raised" ELSE pc
          /\ printed' = printed \o r.printed
          /\ case_completed' = case_completed \o r.completed
          /\ energy_plus_runs' = energy_plus_runs \o r.runs
          /\ \/ disk' = make_run_directory(disk, dir, Owner(ThisRunner, stage_pos + 1))
             \/ /\ r.raised
                /\ disk' = IF Exists(disk, dir) THEN rmtree(disk, dir) ELSE disk
    /\ stage_pos' = stage_pos + 1
    /\ UNCHANGED <<end_frame, entries, result_dirs, diff_frame, number_of_threads, run_case,
                   id_like_to_stop_now, build, run_pos, task_queue, done_queue, workers,
                   exec_log, events, response, summary_files, phase_flag, now, runners, text_case, text_result,
                   weather, gui>>

\* run_build after the loop: the serial path, or the tasks are submitted and
\* range(self.number_of_threads) worker processes are to be started, which
\* are none when the number is below one
StartExecution ==
    /\ pc = "staging"
    /\ stage_pos = Len(entries)
    /\ IF number_of_threads = 1
       THEN /\ pc' = "serial"
            /\ task_queue' = task_queue
       ELSE /\ pc' = IF number_of_threads < 1 THEN "collecting" ELSE "starting_workers"
            /\ task_queue' = task_queue \o energy_plus_runs
    /\ phase_flag' = [phase_flag EXCEPT ![build] = IF id_like_to_stop_now THEN "set" ELSE "clear"]
    /\ UNCHANGED <<end_frame, entries, result_dirs, diff_frame, printed, number_of_threads,
                   run_case, id_like_to_stop_now, build, stage_pos, energy_plus_runs, run_pos,
                   done_queue, workers, stage_log, exec_log, case_completed, events,
                   response, summary_files, disk, now, runners, text_case, text_result,
                   weather, gui>>

\* the serial loop without "if self.id_like_to_stop_now: return"
SerialExecute_NoCheck ==
    /\ pc = "serial"
    /\ run_pos < Len(energy_plus_runs)
    /\ LET i == energy_plus_runs[run_pos + 1].index IN
       \E outcome \in ExecOutcomes :
          LET ret == execute_energyplus(build, entries[i].basename, outcome, MainProcess) IN
          /\ exec_log' = exec_log \cup
                 {[build |-> build, index |-> i, label |-> MainProcess,
                   stop_requested |-> id_like_to_stop_now, outcome |-> outcome]}
          /\ result_dirs' = [result_dirs EXCEPT ![i][build] = RunDirAfter(outcome)]
          /\ case_completed' = Append(case_completed,
                 TestCaseCompleted(ret[1], ret[2], ret[3], ret[4], ret[5]))
    /\ run_pos' = run_pos + 1
    /\ UNCHANGED <<end_frame, entries, diff_frame, printed, pc, number_of_threads, run_case,
                   id_like_to_stop_now, build, stage_pos, energy_plus_runs, task_queue,
                   done_queue, workers, stage_log, events, response, summary_files,
                   phase_flag, disk, now, runners, text_case, text_result,
                   weather, gui>>

\* serial path: the flag was not set, the next task is executed in process
SerialExecute ==
    /\ pc = "serial"
    /\ run_pos < Len(energy_plus_runs)
    /\ ~id_like_to_stop_now
    /\ LET i == energy_plus_runs[run_pos + 1].index IN
       \E outcome \in ExecOutcomes :
          LET ret == execute_energyplus(build, entries[i].basename, outcome, MainProcess) IN
          /\ exec_log' = exec_log \cup
                 {[build |-> build, index |-> i, label |-> MainProcess,
                   stop_requested |-> id_like_to_stop_now, outcome |-> outcome]}
          /\ result_dirs' = [result_dirs EXCEPT ![i][build] = RunDirAfter(outcome)]
          /\ case_completed' = Append(case_completed,
                 TestCaseCompleted(ret[1], ret[2], ret[3], ret[4], ret[5]))
    /\ run_pos' = run_pos + 1
    /\ UNCHANGED <<end_frame, entries, diff_frame, printed, pc, number_of_threads, run_case,
                   id_like_to_stop_now, build, stage_pos, energy_plus_runs, task_queue,
                   done_queue, workers, stage_log, events, response, summary_files, phase_flag, disk, now,
                   runners, text_case, text_result,
                   weather, gui>>

\* serial path: the flag is set before a task, or the tasks are over: return
SerialReturn ==
    /\ pc = "serial"
    /\ id_like_to_stop_now \/ run_pos = Len(energy_plus_runs)
    /\ pc' = "builds"
    /\ UNCHANGED <<end_frame, entries, result_dirs, diff_frame, printed, number_of_threads,
                   run_case, id_like_to_stop_now, build_frame, stage_log, exec_log,
                   case_completed, events, response, summary_files, phase_flag, disk, now,
                   runners, text_case, text_result,
                   weather, gui>>

\* the worker processes started with the flag clear, whatever the orchestrator holds
StartWorker_FlagClear ==
    /\ pc = "starting_workers"
    /\ Len(workers) < number_of_threads
    /\ workers' = Append(workers, [state |-> "waiting", stop |-> FALSE, task |-> STOP])
    /\ pc' = IF Len(workers) + 1 = number_of_threads THEN "collecting" ELSE pc
    /\ UNCHANGED <<end_frame, entries, result_dirs, diff_frame, printed, number_of_threads,
                   run_case, id_like_to_stop_now, build, stage_pos, energy_plus_runs, run_pos,
                   task_queue, done_queue, stage_log, exec_log, case_completed, events,
                   response, summary_files, phase_flag, disk, now, runners, text_case, text_result,
                   weather, gui>>

\* parallel path: the next worker process is started; it takes with it the
\* value the flag has in the orchestrator at that moment
StartWorker ==
    /\ pc = "starting_workers"
    /\ Len(workers) < number_of_threads
    /\ workers' = Append(workers, [state |-> "waiting", stop |-> id_like_to_stop_now,
                                   task |-> STOP])
    /\ pc' = IF Len(workers) + 1 = number_of_threads THEN "collecting" ELSE pc
    /\ UNCHANGED <<end_frame, entries, result_dirs, diff_frame, printed, number_of_threads,
                   run_case, id_like_to_stop_now, build, stage_pos, energy_plus_runs, run_pos,
                   task_queue, done_queue, stage_log, exec_log, case_completed, events,
                   response, summary_files, phase_flag, disk, now,
                   runners, text_case, text_result,
                   weather, gui>>

\* input_data.get reading the head of the task queue without removing a task
WorkerGet_Peek(k) ==
    /\ workers[k].state = "waiting"
    /\ task_queue # <<>>
    /\ LET t == Head(task_queue) IN
       IF t = STOP \/ workers[k].stop
       THEN /\ workers' = [workers EXCEPT ![k].state = "returned"]
            /\ task_queue' = Tail(task_queue)
            /\ exec_log' = exec_log
       ELSE /\ workers' = [workers EXCEPT ![k].state = "running", ![k].task = t]
            /\ task_queue' = task_queue
            /\ exec_log' = exec_log \cup
                   {[build |-> build, index |-> t.index, label |-> WorkerLabel(k),
                     stop_requested |-> id_like_to_stop_now, outcome |-> "running"]}
    /\ UNCHANGED <<end_frame, entries, result_dirs, diff_frame, printed, pc, number_of_threads,
                   run_case, id_like_to_stop_now, build, stage_pos, energy_plus_runs, run_pos,
                   done_queue, stage_log, case_completed, events, response, summary_files,
                   phase_flag, disk, now, runners, text_case, text_result,
                   weather, gui>>

\* threaded_worker: the worker takes the next item of the task queue; on
\* 'STOP' the loop ends, with its flag set it returns, else it begins the task
WorkerGet(k) ==
    /\ workers[k].state = "waiting"
    /\ task_queue # <<>>
    /\ task_queue' = Tail(task_queue)
    /\ LET t == Head(task_queue) IN
       IF t = STOP \/ workers[k].stop
       THEN /\ workers' = [workers EXCEPT ![k].state = "returned"]
            /\ exec_log' = exec_log
       ELSE /\ workers' = [workers EXCEPT ![k].state = "running", ![k].task = t]
            /\ exec_log' = exec_log \cup
                   {[build |-> build, index |-> t.index, label |-> WorkerLabel(k),
                     stop_requested |-> id_like_to_stop_now, outcome |-> "running"]}
    /\ UNCHANGED <<end_frame, entries, result_dirs, diff_frame, printed, pc, number_of_threads,
                   run_case, id_like_to_stop_now, build, stage_pos, energy_plus_runs, run_pos,
                   done_queue, stage_log, case_completed, events, response, summary_files, phase_flag, disk, now,
                   runners, text_case, text_result,
                   weather, gui>>

\* threaded_worker: the task ends and its return value is put on the done queue
WorkerFinish(k) ==
    /\ workers[k].state = "running"
    /\ LET i == workers[k].task.index IN
       \E outcome \in ExecOutcomes :
          /\ done_queue' = Append(done_queue,
                 execute_energyplus(build, entries[i].basename, outcome, WorkerLabel(k)))
          /\ result_dirs' = [result_dirs EXCEPT ![i][build] = RunDirAfter(outcome)]
          /\ exec_log' = {IF x.build = build /\ x.index = i /\ x.outcome = "running"
                          THEN [x EXCEPT !.outcome = outcome] ELSE x : x \in exec_log}
    /\ workers' = [workers EXCEPT ![k].state = "waiting"]
    /\ UNCHANGED <<end_frame, entries, diff_frame, printed, pc, number_of_threads, run_case,
                   id_like_to_stop_now, build, stage_pos, energy_plus_runs, run_pos,
                   task_queue, stage_log, case_completed, events, response, summary_files, phase_flag, disk, now,
                   runners, text_case, text_result,
                   weather, gui>>

\* the collecting loop counting two for each result it gets
CollectResult_CountsTwice ==
    /\ pc = "collecting"
    /\ run_pos < Len(energy_plus_runs)
    /\ done_queue # <<>>
    /\ LET ret == Head(done_queue) IN
       case_completed' = Append(case_completed,
                                TestCaseCompleted(ret[1], ret[2], ret[3], ret[4], ret[5]))
    /\ done_queue' = Tail(done_queue)
    /\ run_pos' = Min(run_pos + 2, Len(energy_plus_runs))
    /\ UNCHANGED <<end_frame, entries, result_dirs, diff_frame, printed, pc, number_of_threads,
                   run_case, id_like_to_stop_now, build, stage_pos, energy_plus_runs,
                   task_queue, workers, stage_log, exec_log, events, response, summary_files,
                   phase_flag, disk, now, runners, text_case, text_result,
                   weather, gui>>

\* parallel path: done_queue.get() returns a result, handed to my_casecompleted
CollectResult ==
    /\ pc = "collecting"
    /\ run_pos < Len(energy_plus_runs)
    /\ done_queue # <<>>
    /\ LET ret == Head(done_queue) IN
       case_completed' = Append(case_completed,
                                TestCaseCompleted(ret[1], ret[2], ret[3], ret[4], ret[5]))
    /\ done_queue' = Tail(done_queue)
    /\ run_pos' = run_pos + 1
    /\ UNCHANGED <<end_frame, entries, result_dirs, diff_frame, printed, pc, number_of_threads,
                   run_case, id_like_to_stop_now, build, stage_pos, energy_plus_runs,
                   task_queue, workers, stage_log, exec_log, events, response, summary_files, phase_flag, disk, now,
                   runners, text_case, text_result,
                   weather, gui>>

\* the collecting loop one pass short
StopWorkers_OneShort ==
    /\ pc = "collecting"
    /\ run_pos >= Len(energy_plus_runs) - 1
    /\ task_queue' = task_queue \o [i \in 1..number_of_threads |-> STOP]
    /\ pc' = "builds"
    /\ UNCHANGED <<end_frame, entries, result_dirs, diff_frame, printed, number_of_threads,
                   run_case, id_like_to_stop_now, build, stage_pos, energy_plus_runs, run_pos,
                   done_queue, workers, stage_log, exec_log, case_completed, events,
                   response, summary_files, phase_flag, disk, now,
                   runners, text_case, text_result,
                   weather, gui>>

\* parallel path: every result was collected; one 'STOP' per worker, return
StopWorkers ==
    /\ pc = "collecting"
    /\ run_pos = Len(energy_plus_runs)
    /\ task_queue' = task_queue \o [i \in 1..number_of_threads |-> STOP]
    /\ pc' = "builds"
    /\ UNCHANGED <<end_frame, entries, result_dirs, diff_frame, printed, number_of_threads,
                   run_case, id_like_to_stop_now, build, stage_pos, energy_plus_runs, run_pos,
                   done_queue, workers, stage_log, exec_log, case_completed, events,
                   response, summary_files, phase_flag, disk, now,
                   runners, text_case, text_result,
                   weather, gui>>

\* a step of the orchestrator or of a worker process
SuiteStep ==
    \/ ResetFlag
    \/ PrepareDirStructure
    \/ NextBuild
    \/ StageEntry
    \/ StartExecution
    \/ SerialExecute
    \/ SerialReturn
    \/ StartWorker
    \/ \E k \in 1..Len(workers) : WorkerGet(k)
    \/ \E k \in 1..Len(workers) : WorkerFinish(k)
    \/ CollectResult
    \/ StopWorkers
    \/ DiffNextEntry
    \/ ReturnCompleted
    \/ FinishSuite

NextSuite == Cancel \/ SuiteStep

SpecSuite == InitSuite /\ [][NextSuite]_vars

----------------------------------------------------------------------------
(* Claims on the suite run *)

Builds == {"a", "b"}
Staged(b, i, kind) ==
    \E k \in 1..Len(stage_log) : stage_log[k] = [build |-> b, index |-> i, kind |-> kind]
Executions(b, i) == {x \in exec_log : x.build = b /\ x.index = i}
CountEvent(e) == Cardinality({k \in 1..Len(events) : events[k] = e})
Completed == pc = "returned" /\ CountEvent("alldone") > 0

\* C13: a failure while staging one entry (its run directory or datasets
\* directory cannot be created, or a copy raises) does not abort the suite:
\* the run is never left by that exception.
C13_StagingFailureAbsorbed ==
    \A k \in 1..Len(stage_log) : stage_log[k].kind = "raise" => pc # "raised"

MissingRecord(i) == TestCaseCompleted(TestOutputDir, entries[i].basename, FALSE, FALSE, "")

\* C14: for an entry whose input exists in neither form in a build, one
\* onCaseCompleted record with success = false is emitted for that build,
\* the entry gets no task and no execute call in that build, and the loop
\* goes on with the next entry: the suite is not aborted.
C14_MissingInputRecorded ==
    /\ \A i \in 1..Len(entries) :
          /\ Cardinality({k \in 1..Len(case_completed) : case_completed[k] = MissingRecord(i)})
                = Cardinality({b \in Builds : Staged(b, i, "none")})
          /\ \A b \in Builds : Staged(b, i, "none") =>
                /\ Executions(b, i) = {}
                /\ b = build =>
                      /\ \A k \in 1..Len(energy_plus_runs) : energy_plus_runs[k] # Task(i)
                      /\ \A k \in 1..Len(task_queue) : task_queue[k] # Task(i)
                      /\ \A k \in 1..Len(workers) :
                            ~(workers[k].state = "running" /\ workers[k].task = Task(i))
    /\ (stage_log # <<>> /\ stage_log[Len(stage_log)].kind = "none") =>
          /\ pc # "raised"
          /\ (pc = "staging" /\ stage_log[Len(stage_log)].build = build) =>
                stage_pos = stage_log[Len(stage_log)].index

\* build A found no input for the first entry and ran the second; the
\* suite went on to its end
C14_Witness ==
    /\ Completed
    /\ Staged("a", 1, "none")
    /\ Executions("a", 1) = {}
    /\ \E x \in Executions("a", 2) : x.outcome = "success"
    /\ case_completed[1] = MissingRecord(1)

\* a record with its worker label kept or blanked
Labelled(r, keep) == IF keep THEN r ELSE [r EXCEPT !.name_of_thread = ""]

\* the record of an execution when the orchestrator itself runs it, as on
\* the serial path
SerialRecord(x) ==
    TestCaseCompleted(x.build, entries[x.index].basename, x.outcome = "success", FALSE,
                      MainProcess)

\* how often record r is among those a pool of size 1 emits for the staging
\* results and execution outcomes of this run, and how often it was emitted
ExpectedCount(r, keep) ==
    Cardinality({k \in 1..Len(stage_log) :
                    /\ stage_log[k].kind = "none"
                    /\ Labelled(MissingRecord(stage_log[k].index), keep) = r})
    + Cardinality({x \in exec_log : Labelled(SerialRecord(x), keep) = r})
ActualCount(r, keep) ==
    Cardinality({k \in 1..Len(case_completed) : Labelled(case_completed[k], keep) = r})

SameRecords(keep) ==
    \A r \in {Labelled(case_completed[k], keep) : k \in 1..Len(case_completed)}
             \cup {Labelled(SerialRecord(x), keep) : x \in exec_log}
             \cup {Labelled(MissingRecord(i), keep) : i \in 1..Len(entries)} :
        ActualCount(r, keep) = ExpectedCount(r, keep)

\* every staged task was executed once, to its end, and nothing else was
ExecutedOnce ==
    \A b \in Builds, i \in 1..Len(entries) :
        /\ Cardinality(Executions(b, i)) = IF Staged(b, i, "found") THEN 1 ELSE 0
        /\ \A x \in Executions(b, i) : x.outcome \in ExecOutcomes

OutcomeOf(b, i) ==
    IF Executions(b, i) = {} THEN "none" ELSE (CHOOSE x \in Executions(b, i) : TRUE).outcome
StatusOf(b, i) ==
    CASE OutcomeOf(b, i) = "success" -> STATUS_SUCCESS
      [] OutcomeOf(b, i) = "fatal" -> STATUS_FATAL
      [] OTHER -> STATUS_MISSING

\* the SuiteResult follows from the execution outcomes alone: the result
\* directories are what the executions left, an entry is in the all-cases
\* bucket at most once and with the statuses of its two executions, and is
\* left out only when a diff call raised
ResultFromOutcomes ==
    \A i \in 1..Len(entries) :
        /\ \A b \in Builds : result_dirs[i][b] = RunDirAfter(OutcomeOf(b, i))
        /\ Cardinality({k \in 1..Len(all_files) : all_files[k] = i}) <= 1
        /\ InAllFiles(i) =>
              /\ entries[i].summary_result.status_case1 = StatusOf("a", i)
              /\ entries[i].summary_result.status_case2 = StatusOf("b", i)
        /\ ~InAllFiles(i) => StatusOf("a", i) = STATUS_SUCCESS /\ StatusOf("b", i) = STATUS_SUCCESS

\* C15: for the same entry list and the same per-case execution outcomes, a
\* run with pool size 1 and a run with pool size N > 1 produce the same
\* SuiteResult and the same multiset of onCaseCompleted records, for every
\* completion order of the workers.  Stated on one run: what a completed run
\* emitted and aggregated is what the serial path emits and aggregates for
\* the same staging results and outcomes, worker labels included.
C15_PoolSizeIrrelevant ==
    Completed => ExecutedOnce /\ SameRecords(TRUE) /\ ResultFromOutcomes

\* C15 amended: the same, with the records compared up to their worker label.
C15_PoolSizeIrrelevantUpToLabel ==
    Completed => ExecutedOnce /\ SameRecords(FALSE) /\ ResultFromOutcomes

\* two workers ran the two tasks of build A and the results were collected
\* in the reverse of the order of submission; both builds succeeded on the
\* first entry, which was diffed and added
C15_Witness ==
    /\ Completed
    /\ number_of_threads = 2
    /\ Len(case_completed) >= 2
    /\ case_completed[1] = [SerialRecord([build |-> "a", index |-> 2, outcome |-> "fatal"])
                               EXCEPT !.name_of_thread = WorkerLabel(1)]
    /\ case_completed[2] = [SerialRecord([build |-> "a", index |-> 1, outcome |-> "success"])
                               EXCEPT !.name_of_thread = WorkerLabel(2)]
    /\ StatusOf("b", 1) = STATUS_SUCCESS
    /\ InAllFiles(1) /\ InAllFiles(2)
    /\ Len(entries[1].diffs) = 1

\* C16: with pool size > 1, once the cancel flag is set no worker begins a
\* case it had not already started: no execution begins while the flag is set.
C16_NoStartAfterCancel ==
    number_of_threads > 1 => \A x \in exec_log : ~x.stop_requested

ExecutionPhase == {"prepare", "builds", "staging", "serial", "starting_workers", "collecting"}

\* C17: with the cancel flag set before the last build's execution phase
\* has finished, run_test_suite goes on to its return: the orchestrator is
\* never left waiting with no step of its own or of a worker possible.
C17_CancelReturns ==
    (id_like_to_stop_now /\ pc \in ExecutionPhase) => ENABLED SuiteStep

\* a step of a checkpoint that finds the flag set
ObservesCancel ==
    /\ id_like_to_stop_now
    /\ \/ pc = "prepare" /\ pc' # "raised"
       \/ pc = "builds" /\ build # "none" /\ pc' # "builds"

C18_State ==
    /\ CountEvent("cancelled") + CountEvent("alldone") <= 1
    /\ CountEvent("cancelled") = 1 => pc = "returned"

C18_Step == ObservesCancel => events' = Append(events, "cancelled") /\ pc' = "returned"

\* C18: in every run onCancelled and onSuiteComplete each fire at most once
\* and never both; a checkpoint that finds the flag set fires onCancelled,
\* once, and the run returns, so that onSuiteComplete never fires.
C18_CancelledXorComplete == []C18_State /\ [][C18_Step]_vars

\* cancelled on the serial path after one case of build A was executed
C18_Witness ==
    /\ pc = "returned"
    /\ events = <<"starting", "cancelled">>
    /\ number_of_threads = 1
    /\ build = "a"
    /\ Cardinality(exec_log) = 1
    /\ Staged("a", 2, "found")

\* C19: when a run ends with onCancelled, nothing of the later phases has
\* happened: no onAllSimulationsComplete, no entry diffed (no summary, no
\* diff record, no onDiffCompleted), no SuiteResult, no summary file, and
\* run_test_suite returns no result.
C19_CancelledLeavesNothing ==
    CountEvent("cancelled") > 0 =>
        /\ pc = "returned"
        /\ CountEvent("simulationscomplete") = 0
        /\ CountEvent("alldone") = 0
        /\ diff_pos = 0 /\ diff_completed = <<>> /\ diff_calls = <<>> /\ parser_calls = {}
        /\ all_files = <<>>
        /\ \A i \in 1..Len(entries) : entries[i] = TestEntry(entries[i].basename)
        /\ summary_files = {}
        /\ response = "None"

\* cancelled after the parallel execution of build B: both builds left two
\* successful runs of the first entry, and nothing was diffed
C19_Witness ==
    /\ pc = "returned"
    /\ CountEvent("cancelled") = 1
    /\ number_of_threads = 2
    /\ build = "b"
    /\ StatusOf("a", 1) = STATUS_SUCCESS /\ StatusOf("b", 1) = STATUS_SUCCESS
    /\ entries[1].summary_result = NoSummary

\* C20: a cancel request made after the run was launched is never lost:
\* the runner does not clear a request that was already made.
C20_RequestNeverCleared == [][id_like_to_stop_now => id_like_to_stop_now']_vars

\* C21: the cancel flag is looked at before the cases of each build are
\* executed: when the flag is set as the execution of a build's tasks begins
\* (set during or after the build before it, or after the directories were
\* prepared), no case of that build is executed.
C21_NoExecutionAfterEarlyCancel ==
    \A b \in Builds : phase_flag[b] = "set" => \A i \in 1..Len(entries) : Executions(b, i) = {}

\* build A ran and left an execution; the flag was set while build B was
\* staged, two workers were started for its task and neither executed it
C21_Witness ==
    /\ phase_flag["b"] = "set"
    /\ build = "b"
    /\ number_of_threads = 2
    /\ Len(energy_plus_runs) > 0
    /\ \E k \in 1..Len(workers) : workers[k].state = "returned"
    /\ Executions("a", 1) # {}

\* where the task of entry i of the build that runs is: on the task queue,
\* with a worker, on the done queue as a result, or reported
InQueue(i) == Cardinality({k \in 1..Len(task_queue) : task_queue[k] = Task(i)})
Running(i) ==
    Cardinality({k \in 1..Len(workers) :
                    workers[k].state = "running" /\ workers[k].task = Task(i)})
Posted(i) ==
    Cardinality({k \in 1..Len(done_queue) :
                    done_queue[k][1] = build /\ done_queue[k][2] = entries[i].basename})
Reported(b, i) ==
    Cardinality({k \in 1..Len(case_completed) :
                    /\ case_completed[k].run_directory = b
                    /\ case_completed[k].case_name = entries[i].basename})
Submitted(i) == IF \E k \in 1..Len(energy_plus_runs) : energy_plus_runs[k] = Task(i) THEN 1 ELSE 0

ParallelNoCancel == number_of_threads > 1 /\ ~id_like_to_stop_now

C24_State ==
    ParallelNoCancel =>
        /\ pc \in {"starting_workers", "collecting"} =>
              /\ \A i \in 1..Len(entries) :
                    /\ InQueue(i) + Running(i) + Posted(i) + Reported(build, i) = Submitted(i)
                    /\ Cardinality(Executions(build, i)) = Running(i) + Posted(i) + Reported(build, i)
              /\ run_pos <= Len(energy_plus_runs)
        /\ (pc = "builds" /\ build # "none") =>
              /\ \A i \in 1..Len(entries) :
                    /\ Reported(build, i) = Submitted(i)
                    /\ Cardinality(Executions(build, i)) = Submitted(i)
                    /\ InQueue(i) = 0 /\ Running(i) = 0
              /\ done_queue = <<>>
              /\ run_pos = Len(energy_plus_runs)

C24_Step ==
    (ParallelNoCancel /\ pc = "collecting") =>
        /\ run_pos' # run_pos =>
              /\ done_queue # <<>>
              /\ run_pos' = run_pos + 1
              /\ done_queue' = Tail(done_queue)
              /\ LET ret == Head(done_queue) IN
                 case_completed' = Append(case_completed,
                     TestCaseCompleted(ret[1], ret[2], ret[3], ret[4], ret[5]))
        /\ case_completed' # case_completed => run_pos' = run_pos + 1
        /\ pc' # "collecting" => run_pos = Len(energy_plus_runs)

\* C24: with pool size > 1 and no cancellation, every staged task is taken
\* from the task queue by exactly one worker, executed exactly once and
\* reported through onCaseCompleted exactly once, in the order in which the
\* results arrive on the done queue; the orchestrator leaves the build's
\* phase only when it has collected as many results as tasks were submitted.
C24_EachTaskOnce == []C24_State /\ [][C24_Step]_vars

\* two workers ran the two tasks of build A; the result of the second task
\* arrived and was reported first; the phase is over
C24_Witness ==
    /\ ParallelNoCancel
    /\ pc = "builds" /\ build = "a"
    /\ Len(energy_plus_runs) = 2
    /\ Len(case_completed) = 2
    /\ case_completed[1].case_name = entries[2].basename
    /\ case_completed[2].case_name = entries[1].basename

C25_State ==
    number_of_threads = 1 =>
        /\ workers = <<>> /\ task_queue = <<>> /\ done_queue = <<>>
        /\ \A x \in exec_log :
              x.label = MainProcess /\ ~x.stop_requested /\ x.outcome \in ExecOutcomes
        /\ \A k \in 1..(Len(energy_plus_runs) - 1) :
              energy_plus_runs[k].index < energy_plus_runs[k + 1].index
        /\ pc = "serial" =>
              /\ \A k \in 1..Len(energy_plus_runs) :
                    Cardinality(Executions(build, energy_plus_runs[k].index))
                        = IF k <= run_pos THEN 1 ELSE 0
              /\ \A i \in 1..Len(entries) : Reported(build, i) = Cardinality(Executions(build, i))

C25_Step ==
    (number_of_threads = 1 /\ exec_log' # exec_log) =>
        /\ pc = "serial" /\ ~id_like_to_stop_now
        /\ run_pos' = run_pos + 1
        /\ LET i == energy_plus_runs[run_pos + 1].index IN
           /\ \E x \in exec_log' : x.build = build /\ x.index = i
           /\ Len(case_completed') = Len(case_completed) + 1
           /\ case_completed'[Len(case_completed')].case_name = entries[i].basename
           /\ case_completed'[Len(case_completed')].name_of_thread = MainProcess

\* C25: with pool size 1 no worker process is started and no queue is used:
\* the staged cases are executed by the orchestrator one at a time in entry
\* order, the onCaseCompleted of a case is emitted before the next case
\* starts, and the flag is read before each case, so that no case starts
\* with the flag set.
C25_SerialInProcess == []C25_State /\ [][C25_Step]_vars

\* the first of two staged cases of build A was executed, then the flag was
\* set and run_build returned without starting the second
C25_Witness ==
    /\ number_of_threads = 1
    /\ pc = "builds" /\ build = "a"
    /\ id_like_to_stop_now
    /\ Len(energy_plus_runs) = 2 /\ run_pos = 1
    /\ Executions("a", 1) # {} /\ Executions("a", 2) = {}

\* an execution is in flight, or a result waits to be collected
InFlight(b) ==
    \/ \E x \in exec_log : x.build = b /\ x.outcome = "running"
    \/ \E i \in 1..Len(entries) : Reported(b, i) # Cardinality(Executions(b, i))

\* the execution phase of build b is over: every entry was staged, every
\* staged task executed to its end, once, and its result reported
PhaseFinished(b) ==
    /\ ~InFlight(b)
    /\ \A i \in 1..Len(entries) :
          /\ \E kind \in StageKinds : Staged(b, i, kind)
          /\ Cardinality(Executions(b, i)) = IF Staged(b, i, "found") THEN 1 ELSE 0

DiffBegun ==
    \/ pc \in {"diffing", "diffed"}
    \/ diff_pos > 0 \/ parser_calls # {} \/ diff_calls # <<>> \/ all_files # <<>>
    \/ \E i \in 1..Len(entries) : entries[i] # TestEntry(entries[i].basename)

\* C26: the phases of one suite run never overlap: every result of build A
\* has been collected before a case of build B is staged or executed, and
\* no entry is diffed before the execution phases of the builds that run
\* have finished, so that the diff phase never meets an execution in flight.
C26_PhasesNeverOverlap ==
    /\ (build = "b" \/ \E x \in exec_log : x.build = "b"
                    \/ \E k \in 1..Len(stage_log) : stage_log[k].build = "b")
          => /\ ~InFlight("a")
             /\ run_case.a => PhaseFinished("a")
    /\ DiffBegun =>
          /\ \A b \in Builds : ~InFlight(b) /\ (run_case[b] => PhaseFinished(b))
          /\ task_queue = <<>> /\ done_queue = <<>>
          /\ \A k \in 1..Len(workers) : workers[k].state # "running"

\* both builds ran their two cases on two workers; the first entry is diffed
C26_Witness ==
    /\ number_of_threads = 2
    /\ diff_pos = 1
    /\ PhaseFinished("a") /\ PhaseFinished("b")
    /\ \A b \in Builds, i \in 1..Len(entries) : Executions(b, i) # {}

\* the workers that wait on the task queue, and the 'STOP's on it
WaitingWorkers == {k \in 1..Len(workers) : workers[k].state = "waiting"}
StopsQueued == Cardinality({k \in 1..Len(task_queue) : task_queue[k] = STOP})

\* run_test_suite returned its response after my_alldone
ReturnedResult ==
    pc = "returned" /\ response = "completed_structure" /\ CountEvent("alldone") = 1

\* prepare_dir_structure raised (C28)
PrepareFailed == pc = "raised" /\ build = "none"

\* C27: with pool size >= 1, no cancellation and every execution returning
\* a result, run_test_suite, once its directories are prepared, terminates
\* and returns the SuiteResult after one onSuiteComplete: no exception
\* leaves it, the orchestrator is never left waiting with no step of its
\* own or of a worker possible, and it returns only with the result; and
\* when run_build returns on the parallel path the task queue holds one
\* 'STOP' for each worker that waits and no task, so that every worker exits.
C27_TerminatesWithResult ==
    (number_of_threads >= 1 /\ ~id_like_to_stop_now /\ ~PrepareFailed) =>
        /\ pc # "raised"
        /\ pc \in ExecutionPhase => ENABLED SuiteStep
        /\ pc = "returned" => ReturnedResult
        /\ CountEvent("alldone") <= 1
        /\ CountEvent("alldone") = 1 => ReturnedResult
        /\ (number_of_threads > 1 /\ pc = "builds" /\ build # "none") =>
              /\ \A k \in 1..Len(workers) : workers[k].state \in {"waiting", "returned"}
              /\ \A k \in 1..Len(task_queue) : task_queue[k] = STOP
              /\ StopsQueued = Cardinality(WaitingWorkers)

RootsMade == \A b \in Builds : Exists(disk, OutputRoot(b, TestOutputDir))

C28_State ==
    ~RootsMade =>
        /\ pc \in {"launched", "prepare", "raised"}
        /\ events = <<>> /\ case_completed = <<>> /\ printed = <<>>
        /\ stage_log = <<>> /\ energy_plus_runs = <<>> /\ exec_log = {}
        /\ response = "None"

C28_Step ==
    /\ (pc = "prepare" /\ pc' # "prepare" /\ ~RootsMade') =>
          pc' = "raised" /\ UNCHANGED <<events, case_completed, printed, stage_log, exec_log>>
    /\ PrepareFailed =>
          UNCHANGED <<pc, events, case_completed, printed, stage_log, exec_log, response>>

\* C28: when the output root of either build cannot be created, the error
\* leaves run_test_suite: no case is staged or executed and none of
\* onSimulationsStarting, onCaseCompleted, onAllSimulationsComplete,
\* onSuiteComplete and onCancelled is emitted, then or later.
C28_PrepareFailureSurfaces == []C28_State /\ [][C28_Step]_vars

\* the root of build A was made, os.mkdir raised for build B
C28_Witness ==
    /\ PrepareFailed
    /\ Exists(disk, OutputRoot("a", TestOutputDir))
    /\ ~Exists(disk, OutputRoot("b", TestOutputDir))
    /\ events = <<>>

----------------------------------------------------------------------------
(* SpecPool: the suite run with any configured number of threads, and with
   worker processes that may die while they execute a task *)

\* num_threads as the caller configures it: the command line's -j and the
\* saved settings of the main window take any integer
ThreadCounts == -1..MaxWorkers

InitPool ==
    /\ InitRun
    /\ entries = [i \in 1..MaxCases |-> TestEntry(SuiteCaseNames[i])]
    /\ number_of_threads \in ThreadCounts

\* threaded_worker: func(*these_args) raises, or the worker process is
\* killed while it runs: the process ends and nothing is put on the done queue
WorkerDies(k) ==
    /\ workers[k].state = "running"
    /\ workers' = [workers EXCEPT ![k].state = "dead"]
    /\ exec_log' = {IF x.build = build /\ x.index = workers[k].task.index /\ x.outcome = "running"
                    THEN [x EXCEPT !.outcome = "died"] ELSE x : x \in exec_log}
    /\ UNCHANGED <<end_frame, entries, result_dirs, diff_frame, printed, pc, number_of_threads,
                   run_case, id_like_to_stop_now, build, stage_pos, energy_plus_runs, run_pos,
                   task_queue, done_queue, stage_log, case_completed, events, response,
                   summary_files, phase_flag, disk, now, runners, text_case, text_result,
                   weather, gui>>

PoolStep == SuiteStep \/ \E k \in 1..Len(workers) : WorkerDies(k)

NextPool == Cancel \/ PoolStep

SpecPool == InitPool /\ [][NextPool]_vars

WorkerDied == \E x \in exec_log : x.outcome = "died"

\* C22: with pool size > 1, when executing a case kills its worker (the
\* worker ends without posting a result), the orchestrator is not blocked:
\* while it collects the results of that build, with no cancellation, a step
\* of the orchestrator or of a worker is always possible, so that the phase
\* finishes and the suite goes on.
C22_WorkerDeathDoesNotBlock ==
    (number_of_threads > 1 /\ WorkerDied /\ ~id_like_to_stop_now /\ pc = "collecting")
        => ENABLED PoolStep

\* C23: for every configured thread count, 0 and negative values included,
\* the pool has a worker: while results of staged tasks are outstanding (no
\* cancellation, no worker died), at least one worker process was started
\* and a step of the orchestrator or of a worker is possible, so that every
\* staged task is executed and the phase ends.
C23_PoolHasAWorker ==
    (pc = "collecting" /\ run_pos < Len(energy_plus_runs) /\ ~id_like_to_stop_now
        /\ ~WorkerDied)
        => Len(workers) >= 1 /\ ENABLED PoolStep

----------------------------------------------------------------------------
(* SpecRoots: runners constructed one after the other for the same two
   build directories, and what their runs make and remove under them.  The
   clock ticks TicksPerSecond times a second; a run is short against a tick. *)

TicksPerSecond == 2
MaxTicks == 3
MaxRuns == 2

ForceRunTypes == {"ANNUAL", "DD", "NONE"}

\* SuiteRunner.__init__: the name by run type
OutputDirPrefix(force_run_type) ==
    CASE force_run_type = "ANNUAL" -> "Tests-Annual"
      [] force_run_type = "DD" -> "Tests-DDOnly"
      [] OTHER -> "Tests"

\* strftime('_%Y%m%d_%H%M%S') of the time t, in ticks: date and time down to
\* the second, as the number of whole seconds
Timestamp(t) == t \div TicksPerSecond

\* SuiteRunner.__init__: self.test_output_dir
test_output_dir(force_run_type, t) == <<OutputDirPrefix(force_run_type), Timestamp(t)>>

InitRoots ==
    /\ NoRun
    /\ end_case = NoCase
    /\ end_contents = <<>>
    /\ end_result = NoResult
    /\ entries = <<TestEntry(SuiteCaseNames[1])>>
    /\ result_dirs = <<[a |-> EmptyRunDir, b |-> EmptyRunDir]>>
    /\ case_ends = NoEnds
    /\ parser_calls = {}
    /\ diff_calls = <<>>
    /\ case_raised = "none"
    /\ printed = <<>>
    /\ all_files = <<>>
    /\ diff_completed = <<>>
    /\ diff_pos = 0
    /\ pc = "idle"

roots_frame == <<end_frame, entries, result_dirs, diff_frame, printed, pc, number_of_threads,
                 run_case, id_like_to_stop_now, build_frame, stage_log, exec_log,
                 case_completed, events, response, summary_files, phase_flag, text_case,
                 text_result, weather, gui>>

\* the clock goes on
Tick ==
    /\ now < MaxTicks
    /\ now' = now + 1
    /\ UNCHANGED <<roots_frame, disk, runners>>

\* SuiteRunner(run_config, entries): the name of the output root is fixed
Construct(force_run_type) ==
    /\ Len(runners) < MaxRuns
    /\ runners' = Append(runners, [test_output_dir |-> test_output_dir(force_run_type, now),
                                   ran |-> FALSE])
    /\ UNCHANGED <<roots_frame, disk, now>>

\* the run directories run_build makes for build_tree, entry after entry
RECURSIVE StageRunDirectories(_, _, _, _, _)
StageRunDirectories(d, build_tree, d_test, r, i) ==
    IF i > Len(entries) THEN d
    ELSE StageRunDirectories(
             make_run_directory(d, test_run_directory(build_tree, d_test, entries[i].basename),
                                Owner(r, i)),
             build_tree, d_test, r, i + 1)

\* run_test_suite of runner r, by what it does to the directories:
\* prepare_dir_structure, then the staging loop of run_build for each build
RunSuite(r) ==
    /\ ~runners[r].ran
    /\ LET d_test == runners[r].test_output_dir
           prepared == prepare_dir_structure(disk, d_test, Owner(r, 0), "none").disk
           after_a == IF run_case.a THEN StageRunDirectories(prepared, "a", d_test, r, 1)
                      ELSE prepared
       IN  disk' = IF run_case.b THEN StageRunDirectories(after_a, "b", d_test, r, 1)
                   ELSE after_a
    /\ runners' = [runners EXCEPT ![r].ran = TRUE]
    /\ UNCHANGED <<roots_frame, now>>

NextRoots ==
    \/ Tick
    \/ \E force_run_type \in ForceRunTypes : Construct(force_run_type)
    \/ \E r \in 1..Len(runners) : RunSuite(r)

SpecRoots == InitRoots /\ [][NextRoots]_vars

C29_State ==
    \A r1 \in 1..Len(runners), r2 \in 1..Len(runners) :
        r1 < r2 => runners[r1].test_output_dir # runners[r2].test_output_dir

C29_Step == \A x \in disk : x \in disk'

\* C29: two successive suite runs against the same build directories use
\* different output roots: the root name of a later runner (run-type prefix
\* and the time of its construction, to the second) never equals that of an
\* earlier one, and no run removes or replaces a directory an earlier run made.
C29_RootsNeverCollide == []C29_State /\ [][C29_Step]_vars

----------------------------------------------------------------------------
(* SpecDirs: run_test_suite on an entry list that may name a case twice (the
   list is taken as the caller gives it), followed until the tasks of a build
   are with the workers.  The run is not followed further: two entries of one
   name share one run directory, which result_dirs keeps apart. *)

InitDirs ==
    /\ InitRun
    /\ \E names \in [1..MaxCases -> {SuiteCaseNames[1], SuiteCaseNames[2]}] :
           entries = [i \in 1..MaxCases |-> TestEntry(names[i])]
    /\ number_of_threads \in 1..MaxWorkers

NextDirs ==
    \/ ResetFlag
    \/ PrepareDirStructure
    \/ NextBuild
    \/ StageEntry
    \/ StartExecution
    \/ StartWorker
    \/ \E k \in 1..Len(workers) : WorkerGet(k)

SpecDirs == InitDirs /\ [][NextDirs]_vars

\* the run directory of entry i in the build that runs
RunDirOf(i) == test_run_directory(build, TestOutputDir, entries[i].basename)

C30_State ==
    \A j \in 1..Len(energy_plus_runs), k \in 1..Len(energy_plus_runs) :
        j # k => RunDirOf(energy_plus_runs[j].index) # RunDirOf(energy_plus_runs[k].index)

C30_Step ==
    \A x \in disk :
        (x \notin disk' /\ Len(x.dir) = 3 /\ x.dir[1] = build) =>
            \A k \in 1..Len(energy_plus_runs) : energy_plus_runs[k].index # x.by.entry

\* C30: within the execution phase of one build every task owns its run
\* directory: no two tasks of the job list, staged or with a worker, have
\* the same run directory, and staging an entry never removes the run
\* directory of a task that is staged.
C30_RunDirectoryOwned == []C30_State /\ [][C30_Step]_vars

\* ---------------------------------------------------------------------
\* The comparison of two text files (diff_text_files, lines 386-427).
\* A file is its text, a sequence of characters; text_case holds the two
\* files of one call and text_result what the call returned and whether it
\* wrote the diff file.

\* the lines 395-403
skip_strings ==
    { <<"P", "r", "o", "g", "r", "a", "m", " ", "V", "e", "r", "s", "i", "o", "n", ",", "E", "n", "e", "r", "g", "y", "P", "l", "u", "s">>,
      <<"E", "n", "e", "r", "g", "y", "P", "l", "u", "s", " ", "C", "o", "m", "p", "l", "e", "t", "e", "d">>,
      <<"E", "n", "e", "r", "g", "y", "P", "l", "u", "s", " ", "T", "e", "r", "m", "i", "n", "a", "t", "e", "d">>,
      <<"D", "E", "l", "i", "g", "h", "t", " ", "i", "n", "p", "u", "t", " ", "g", "e", "n", "e", "r", "a", "t", "e", "d">>,
      <<"(", "i", "d", "f", ")", "=">>,
      <<"(", "u", "s", "e", "r", " ", "i", "n", "p", "u", "t", ")", "=">>,
      <<"(", "i", "n", "p", "u", "t", " ", "f", "i", "l", "e", ")", "=">> }

\* f.readlines(): the lines of a text, each with its line end, the last
\* one without when the text does not end with one
RECURSIVE readlines(_)
readlines(text) ==
    IF text = <<>> THEN <<>>
    ELSE LET ends == {i \in 1..Len(text) : text[i] = NL}
             n == IF ends = {} THEN Len(text)
                  ELSE CHOOSE i \in ends : \A j \in ends : i <= j
         IN <<SubSeq(text, 1, n)>> \o readlines(SubSeq(text, n + 1, Len(text)))

\* a comparison of the start of the line only
has_skip_string_AtStart(line) ==
    \E x \in skip_strings : Len(x) <= Len(line) /\ SubSeq(line, 1, Len(x)) = x

\* any([x in line for x in skip_strings])
has_skip_string(line) == \E x \in skip_strings : Contains(line, x)

\* the loops of lines 404-415: the lines without a skip string, in order
RECURSIVE cleaned(_)
cleaned(txt) ==
    IF txt = <<>> THEN <<>>
    ELSE IF has_skip_string(Head(txt)) THEN cleaned(Tail(txt))
         ELSE <<Head(txt)>> \o cleaned(Tail(txt))

NoTextResult == [returned |-> "none", diff_file |-> "absent"]

\* a comparison that cleans the first file only
diff_text_files_RawSecond(file_a, file_b) ==
    LET txt1_cleaned == cleaned(readlines(file_a))
        txt2_cleaned == readlines(file_b)
    IN IF txt1_cleaned = txt2_cleaned
       THEN [returned |-> "EQUAL", diff_file |-> "absent"]
       ELSE [returned |-> "DIFFS", diff_file |-> "written"]

\* diff_text_files: what it returns, and whether diff_file was written
diff_text_files(file_a, file_b) ==
    LET txt1_cleaned == cleaned(readlines(file_a))
        txt2_cleaned == cleaned(readlines(file_b))
    IN IF txt1_cleaned = txt2_cleaned
       THEN [returned |-> "EQUAL", diff_file |-> "absent"]
       ELSE [returned |-> "DIFFS", diff_file |-> "written"]

\* the lines the files are made of: a plain one, two with a skip string,
\* and one that differs from a skip string by the case of a letter
MaxLines == 2
TextLines ==
    { <<"a">>,
      <<"x", " ", "(", "i", "d", "f", ")", "=", "i", "n">>,
      <<"E", "n", "e", "r", "g", "y", "P", "l", "u", "s", " ", "C", "o", "m", "p", "l", "e", "t", "e", "d">>,
      <<"E", "n", "e", "r", "g", "y", "P", "l", "u", "s", " ", "c", "o", "m", "p", "l", "e", "t", "e", "d">> }

RECURSIVE JoinLines(_, _)
JoinLines(lines, terminated) ==
    IF lines = <<>> THEN <<>>
    ELSE IF Len(lines) = 1 THEN Head(lines) \o (IF terminated THEN <<NL>> ELSE <<>>)
         ELSE Head(lines) \o <<NL>> \o JoinLines(Tail(lines), terminated)

LineLists == UNION {[1..n -> TextLines] : n \in 0..MaxLines}
ComparedFiles == {JoinLines(ls, t) : ls \in LineLists, t \in BOOLEAN}

InitText ==
    /\ NoRunner /\ NoWeather /\ NoGui
    /\ end_case = NoCase
    /\ end_contents = <<>>
    /\ end_result = NoResult
    /\ entries = <<>>
    /\ result_dirs = <<>>
    /\ case_ends = NoEnds
    /\ parser_calls = {}
    /\ diff_calls = <<>>
    /\ case_raised = "none"
    /\ printed = <<>>
    /\ all_files = <<>>
    /\ diff_completed = <<>>
    /\ diff_pos = 0
    /\ pc = "idle"
    /\ text_case \in [file_a : ComparedFiles, file_b : ComparedFiles]
    /\ text_result = NoTextResult

\* everything of the suite run and of the diff phase
suite_frame == <<end_frame, entries, result_dirs, diff_frame, printed, pc, runner_vars>>

\* one call of diff_text_files on the two files
DiffTextFiles ==
    /\ text_result = NoTextResult
    /\ text_result' = diff_text_files(text_case.file_a, text_case.file_b)
    /\ UNCHANGED <<text_case, suite_frame, weather, gui>>

NextText == DiffTextFiles

SpecText == InitText /\ [][NextText]_vars

\* a line holds one of the substrings if the substring starts somewhere in it
StartsAt(line, x, i) == \A k \in 1..Len(x) : i + k - 1 <= Len(line) /\ line[i + k - 1] = x[k]
VolatileLine(line) == \E x \in skip_strings : \E i \in 1..Len(line) : StartsAt(line, x, i)
Kept(text) == SelectSeq(readlines(text), LAMBDA line : ~VolatileLine(line))

\* C31: diff_text_files returns EQUAL exactly when the lines of the two files
\* are the same sequence once every line holding a volatile substring is
\* removed and DIFFS otherwise, and it writes the diff file exactly when it
\* returns DIFFS.
C31_EqualIffSameKeptLines ==
    text_result # NoTextResult =>
        /\ text_result.returned \in {"EQUAL", "DIFFS"}
        /\ text_result.returned = "EQUAL" <=> Kept(text_case.file_a) = Kept(text_case.file_b)
        /\ text_result.diff_file = "written" <=> text_result.returned = "DIFFS"

\* two files that differ only by a volatile line were found equal
C31_Witness ==
    /\ text_result.returned = "EQUAL"
    /\ text_case.file_a # text_case.file_b
    /\ \E i \in DOMAIN readlines(text_case.file_b) :
           VolatileLine(readlines(text_case.file_b)[i])
    /\ Kept(text_case.file_a) # <<>>

Returned(file_a, file_b) == diff_text_files(file_a, file_b).returned

\* the offsets of a text at which a line starts
LineStarts(text) == {0} \cup {i \in 1..Len(text) : text[i] = NL}
InsertLine(text, at, line) ==
    SubSeq(text, 1, at) \o line \o <<NL>> \o SubSeq(text, at + 1, Len(text))

RECURSIVE ConcatLines(_)
ConcatLines(lines) == IF lines = <<>> THEN <<>> ELSE Head(lines) \o ConcatLines(Tail(lines))
DeleteLine(text, k) ==
    LET lines == readlines(text)
    IN ConcatLines(SubSeq(lines, 1, k - 1) \o SubSeq(lines, k + 1, Len(lines)))

VolatileLines == {line \in TextLines : VolatileLine(line)}
VolatileAt(text) == {k \in DOMAIN readlines(text) : VolatileLine(readlines(text)[k])}

EpwNames == {"None", "", "Chicago", "Denver"}

\* os.path.join(build_tree['source_dir'], 'weather', self.default_weather_filename)
DefaultWeatherPath == <<"source_dir", "weather", "USA_IL_Chicago-OHare.Intl.AP.725300_TMY3.epw">>
\* os.path.join(build_tree['weather_dir'], this_entry.epw + '.epw')
OverrideWeatherPath(epw) == <<"weather_dir", epw, ".epw">>

\* `if this_entry.epw:` of line 315
HasOverride(epw) == epw \notin {"None", ""}

WeatherPaths == {DefaultWeatherPath} \cup {OverrideWeatherPath(e) : e \in EpwNames \ {"None"}}

\* a resolution that keeps the override path although the file is missing
resolve_epw_NoFallback(epw, files) ==
    IF HasOverride(epw)
    THEN IF OverrideWeatherPath(epw) \in files
         THEN [epw_path |-> OverrideWeatherPath(epw), printed |-> <<>>]
         ELSE [epw_path |-> OverrideWeatherPath(epw), printed |-> <<"weather file did not exist">>]
    ELSE [epw_path |-> DefaultWeatherPath, printed |-> <<>>]

\* lines 314-324: the path, and what my_print was called with
resolve_epw(epw, files) ==
    IF HasOverride(epw)
    THEN IF OverrideWeatherPath(epw) \in files
         THEN [epw_path |-> OverrideWeatherPath(epw), printed |-> <<>>]
         ELSE [epw_path |-> DefaultWeatherPath, printed |-> <<"weather file did not exist">>]
    ELSE [epw_path |-> DefaultWeatherPath, printed |-> <<>>]

NoEpwPath == <<>>

InitWeather ==
    /\ NoRunner /\ NoText /\ NoGui
    /\ end_case = NoCase
    /\ end_contents = <<>>
    /\ end_result = NoResult
    /\ entries = <<>>
    /\ result_dirs = <<>>
    /\ case_ends = NoEnds
    /\ parser_calls = {}
    /\ diff_calls = <<>>
    /\ case_raised = "none"
    /\ printed = <<>>
    /\ all_files = <<>>
    /\ diff_completed = <<>>
    /\ diff_pos = 0
    /\ pc = "idle"
    /\ weather \in [epw : EpwNames, files : SUBSET WeatherPaths,
                    epw_path : {NoEpwPath}, printed : {<<>>}]

\* the weather part of staging one entry: the path resolved goes into the
\* job appended to energy_plus_runs (lines 326-339)
ResolveWeather ==
    /\ weather.epw_path = NoEpwPath
    /\ LET r == resolve_epw(weather.epw, weather.files)
       IN weather' = [weather EXCEPT !.epw_path = r.epw_path, !.printed = r.printed]
    /\ UNCHANGED <<suite_frame, text_case, text_result, gui>>

NextWeather == ResolveWeather

SpecWeather == InitWeather /\ [][NextWeather]_vars

\* C32: the weather path handed to the executor is the override path when
\* the entry has an override and that file exists, the default path after
\* one warning when the entry has an override that does not exist, and the
\* default path with no warning when the entry has no override.
C32_WeatherPath ==
    weather.epw_path # NoEpwPath =>
        LET named == weather.epw # "None" /\ weather.epw # ""
            there == <<"weather_dir", weather.epw, ".epw">> \in weather.files
        IN /\ (named /\ there) =>
                weather.epw_path = <<"weather_dir", weather.epw, ".epw">> /\ weather.printed = <<>>
           /\ (named /\ ~there) =>
                weather.epw_path = DefaultWeatherPath /\ Len(weather.printed) = 1
           /\ ~named => weather.epw_path = DefaultWeatherPath /\ weather.printed = <<>>

\* an override whose file is missing, another weather file being there
C32_Witness ==
    /\ weather.epw = "Denver"
    /\ OverrideWeatherPath("Chicago") \in weather.files
    /\ weather.epw_path = DefaultWeatherPath
    /\ Len(weather.printed) = 1

\* ---------------------------------------------------------------------
\* The events of a suite run, in order

EventOrder == <<"starting", "simulationscomplete", "alldone">>

C33_State ==
    /\ CountEvent("cancelled") = 0 => IsPrefix(events, EventOrder)
    /\ Completed => events = EventOrder /\ Len(diff_completed) = Len(entries)

C33_Step ==
    /\ case_completed' # case_completed => events = <<"starting">> /\ events' = events
    /\ diff_completed' # diff_completed =>
           events = <<"starting", "simulationscomplete">> /\ events' = events

\* C33: in a run that is not cancelled the events come in this order:
\* onSimulationsStarting once, then every onCaseCompleted, then
\* onAllSimulationsComplete once, then every onDiffCompleted, then
\* onSuiteComplete once and last.
C33_EventOrder == []C33_State /\ [][C33_Step]_vars

\* a run of both builds that went to its end with no cancellation asked
C33_Witness ==
    /\ Completed
    /\ ~id_like_to_stop_now
    /\ Len(case_completed) = 2 * Len(entries)
    /\ Len(diff_completed) = Len(entries)

RunBuilds == {b \in Builds : run_case[b]}

\* C34: in a run that is not cancelled, onCaseCompleted fires exactly once
\* per entry for each build whose run flag is set: when the run has returned
\* its result the records emitted number the builds run times the cases
\* announced.
C34_OneRecordPerEntryPerBuild ==
    (Completed /\ ~id_like_to_stop_now) =>
        Len(case_completed) = Cardinality(RunBuilds) * Len(entries)

\* ---------------------------------------------------------------------
\* The diff phase announces every entry

C35_State ==
    /\ Len(diff_completed) = diff_pos
    /\ \A k \in 1..Len(diff_completed) : diff_completed[k] = entries[k].basename
    /\ pc \in {"diffed", "returned"} => Len(diff_completed) = Len(entries)

C35_Step ==
    IF diff_pos' # diff_pos
    THEN diff_completed' = Append(diff_completed, entries[diff_pos + 1].basename)
    ELSE diff_completed' = diff_completed

\* C35: in the diff phase onDiffCompleted fires exactly once per entry, in
\* the order of the entry list, whether the entry went on to its diffs, was
\* skipped, or raised while it was processed: each pass of the loop adds the
\* entry's name once, nothing else adds one, and after the loop the names
\* announced are the names of the entries in order.
C35_DiffCompletedOncePerEntry == []C35_State /\ [][C35_Step]_vars

\* the first entry raised while it was processed, the second was skipped for
\* a missing end file of build B; both were announced
C35_Witness ==
    /\ pc = "returned"
    /\ Len(entries) = 2
    /\ ~InAllFiles(1) /\ ReportedRaise(1)
    /\ InAllFiles(2) /\ ~result_dirs[2].b.end.exists /\ entries[2].diffs = <<>>
    /\ Len(diff_completed) = 2

\* ---------------------------------------------------------------------
\* A build that is not to run

StagedFor(b) == {k \in 1..Len(stage_log) : stage_log[k].build = b}
RunDirsOf(b) ==
    {x \in disk : \E i \in 1..Len(entries) :
        IsPrefix(test_run_directory(b, TestOutputDir, entries[i].basename), x.dir)}

C36_Untouched(b) ==
    /\ build # b
    /\ StagedFor(b) = {}
    /\ \A i \in 1..Len(entries) : Executions(b, i) = {}
    /\ RunDirsOf(b) = {}
    /\ phase_flag[b] = "none"
    /\ \A k \in 1..Len(case_completed) : case_completed[k].run_directory # b
    /\ Len(case_completed) <= Cardinality(UNION {StagedFor(c) : c \in Builds \ {b}})

\* C36: a build whose run flag is false is never staged or executed: no run
\* directory of an entry is made under its output root and no
\* onCaseCompleted is emitted for it; the diff phase still runs once for
\* every entry and the run still ends with onSuiteComplete.
C36_SkippedBuildUntouched ==
    \A b \in Builds : ~run_case[b] =>
        /\ C36_Untouched(b)
        /\ (pc = "returned" /\ CountEvent("cancelled") = 0) =>
              /\ Len(diff_completed) = Len(entries)
              /\ \A i \in 1..Len(entries) : diff_completed[i] = entries[i].basename
              /\ CountEvent("alldone") = 1 /\ events[Len(events)] = "alldone"
              /\ response = "completed_structure"

\* build A was not to run: build B executed every entry in its own run
\* directories, every entry was diffed and the run ended with my_alldone
C36_Witness ==
    /\ ~run_case["a"] /\ run_case["b"]
    /\ Completed
    /\ \A i \in 1..Len(entries) : Executions("b", i) # {}
    /\ RunDirsOf("b") # {}
    /\ Len(case_completed) = Len(entries)
    /\ Len(diff_completed) = Len(entries)

\* ---------------------------------------------------------------------
\* The main window and its suite runs (main_window.py).  gui holds
\* test_suite_is_running, the label of the run button, self.runner as a
\* position in runs, every SuiteRunner made with its cancel flag and the
\* state of its thread, the handlers queued with GObject.idle_add that end a
\* run, the last warning dialog, and the step taken last.  run_button and
\* the handlers run on the main loop, one at a time; the threads run beside.

\* the checks of run_button before a runner is made (lines 1287-1329)
PreRunChecks == {"not_built", "build_exception", "not_verified", "no_entries", "ok"}

\* SuiteRunner(...) and threading.Thread(...).start(): line 68 and 1332-1348
NewRun == [id_like_to_stop_now |-> FALSE, thread |-> "started"]

\* the window after __init__ (lines 141-167, 685)
InitialWindow ==
    [test_suite_is_running |-> FALSE, label |-> "Run Suite", runner |-> 0, runs |-> <<>>,
     idle |-> <<>>, dialog |-> "none", step |-> "none"]

InitGui ==
    /\ NoRunner /\ NoText /\ NoWeather
    /\ end_case = NoCase
    /\ end_contents = <<>>
    /\ end_result = NoResult
    /\ entries = <<>>
    /\ result_dirs = <<>>
    /\ case_ends = NoEnds
    /\ parser_calls = {}
    /\ diff_calls = <<>>
    /\ case_raised = "none"
    /\ printed = <<>>
    /\ all_files = <<>>
    /\ diff_completed = <<>>
    /\ diff_pos = 0
    /\ pc = "idle"
    /\ gui = InitialWindow

gui_frame == <<suite_frame, text_case, text_result, weather>>

\* a run button whose cancel branch also marks the suite as not running
RunButton_CancelGoesIdle ==
    /\ \E check \in PreRunChecks :
          /\ gui.test_suite_is_running \/ check # "ok" \/ Len(gui.runs) < MaxRuns
          /\ gui' = IF gui.test_suite_is_running
                    THEN [gui EXCEPT !.runs[gui.runner].id_like_to_stop_now = TRUE,
                                     !.label = "Cancelling...",
                                     !.test_suite_is_running = FALSE,
                                     !.step = "run_button: cancel"]
                    ELSE IF check # "ok"
                    THEN [gui EXCEPT !.dialog = check, !.step = "run_button: refused"]
                    ELSE [gui EXCEPT !.runs = Append(@, NewRun),
                                     !.runner = Len(gui.runs) + 1,
                                     !.label = "Cancel Suite",
                                     !.test_suite_is_running = TRUE,
                                     !.step = "run_button: start"]
    /\ UNCHANGED gui_frame

\* run_button (lines 1279-1355): while a suite is running, the cancel flag
\* of self.runner, the label and a log entry; else a warning dialog when a
\* check fails; else a new runner with its callbacks and its thread started
RunButton ==
    /\ \E check \in PreRunChecks :
          /\ gui.test_suite_is_running \/ check # "ok" \/ Len(gui.runs) < MaxRuns
          /\ gui' = IF gui.test_suite_is_running
                    THEN [gui EXCEPT !.runs[gui.runner].id_like_to_stop_now = TRUE,
                                     !.label = "Cancelling...",
                                     !.step = "run_button: cancel"]
                    ELSE IF check # "ok"
                    THEN [gui EXCEPT !.dialog = check, !.step = "run_button: refused"]
                    ELSE [gui EXCEPT !.runs = Append(@, NewRun),
                                     !.runner = Len(gui.runs) + 1,
                                     !.label = "Cancel Suite",
                                     !.test_suite_is_running = TRUE,
                                     !.step = "run_button: start"]
    /\ UNCHANGED gui_frame

\* the thread enters run_test_suite: "reset this flag" (runtests.py 114-115)
ThreadReset(r) ==
    /\ gui.runs[r].thread = "started"
    /\ gui' = [gui EXCEPT !.runs[r] = [id_like_to_stop_now |-> FALSE, thread |-> "running"],
                          !.step = "thread"]
    /\ UNCHANGED gui_frame

\* a checkpoint of run_test_suite finds the flag set: my_cancelled, whose
\* callback queues cancel_callback_handler, and return (runtests.py 120-122,
\* 130-132, 135-137; main_window.py 1652-1653)
ThreadCancelled(r) ==
    /\ gui.runs[r].thread = "running"
    /\ gui.runs[r].id_like_to_stop_now
    /\ gui' = [gui EXCEPT !.runs[r].thread = "ended", !.idle = Append(@, "cancel_callback_handler"),
                          !.step = "thread"]
    /\ UNCHANGED gui_frame

\* run_test_suite reaches its end: my_alldone, whose callback queues
\* all_done_callback_handler, and return (runtests.py 163-164;
\* main_window.py 1605-1606)
ThreadAllDone(r) ==
    /\ gui.runs[r].thread = "running"
    /\ gui' = [gui EXCEPT !.runs[r].thread = "ended", !.idle = Append(@, "all_done_callback_handler"),
                          !.step = "thread"]
    /\ UNCHANGED gui_frame

\* an exception leaves run_test_suite (prepare_dir_structure, the staging
\* loop of run_build): the thread ends and no callback is called
ThreadRaised(r) ==
    /\ gui.runs[r].thread = "running"
    /\ gui' = [gui EXCEPT !.runs[r].thread = "raised", !.step = "thread"]
    /\ UNCHANGED gui_frame

\* the main loop runs the handler queued first: all_done_callback_handler
\* (1608-1651) or cancel_callback_handler (1655-1663)
IdleHandler ==
    /\ gui.idle # <<>>
    /\ gui' = [gui EXCEPT !.idle = Tail(@), !.label = "Run Suite",
                          !.test_suite_is_running = FALSE, !.step = Head(gui.idle)]
    /\ UNCHANGED gui_frame

NextGui ==
    \/ RunButton
    \/ IdleHandler
    \/ \E r \in 1..Len(gui.runs) : ThreadReset(r)
    \/ \E r \in 1..Len(gui.runs) : ThreadCancelled(r)
    \/ \E r \in 1..Len(gui.runs) : ThreadAllDone(r)
    \/ \E r \in 1..Len(gui.runs) : ThreadRaised(r)

SpecGui == InitGui /\ [][NextGui]_vars

\* the runs whose thread is at work in run_test_suite
ActiveRuns(g) == {r \in 1..Len(g.runs) : g.runs[r].thread \in {"started", "running"}}
Pressed(g) == g.step \in {"run_button: cancel", "run_button: refused", "run_button: start"}

C38_State ==
    /\ Cardinality(ActiveRuns(gui)) <= 1
    /\ \A r \in ActiveRuns(gui) : gui.test_suite_is_running /\ gui.runner = r

C38_Step ==
    /\ (gui.test_suite_is_running /\ Pressed(gui') /\ gui' # gui) =>
          /\ Len(gui'.runs) = Len(gui.runs)
          /\ gui'.runner = gui.runner
          /\ gui'.runs = [gui.runs EXCEPT ![gui.runner].id_like_to_stop_now = TRUE]
          /\ gui'.test_suite_is_running
          /\ gui'.idle = gui.idle
    /\ Len(gui'.runs) # Len(gui.runs) =>
          /\ ~gui.test_suite_is_running
          /\ ActiveRuns(gui) = {}
          /\ Len(gui'.runs) = Len(gui.runs) + 1

\* C38: in the front-end, pressing the run control while a suite is running
\* never creates a second runner or thread: it only sets the cancel flag of
\* the runner at work; at most one suite run is active at a time.
C38_OneRunAtATime == []C38_State /\ [][C38_Step]_vars

\* a second run at work after a first one ended, the button pressed to
\* cancel it
C38_Witness ==
    /\ Len(gui.runs) = 2
    /\ gui.runs[1].thread = "ended"
    /\ gui.runs[2].thread = "running" /\ gui.runs[2].id_like_to_stop_now
    /\ gui.step = "run_button: cancel"
    /\ gui.label = "Cancelling..."

\* no thread is at work and no handler is queued
Quiet == ActiveRuns(gui) = {} /\ gui.idle = <<>>

\* C39: after a front-end run has ended in any way (completion,
\* cancellation, an error that aborts run_test_suite), the front-end comes
\* back to idle: once no thread is at work and no handler is waiting,
\* test_suite_is_running is false and the run control is labelled
\* 'Run Suite'.
C39_BackToIdle ==
    Quiet => ~gui.test_suite_is_running /\ gui.label = "Run Suite"

====
